---- MODULE Spec2Model ----
(***************************************************************************)
(* Budgetis: the account table, the flow-graph (Sankey) engine of          *)
(* budgetis/finance/builders.py, served by finance/views.py, and the       *)
(* reconciliation and report tree of accounting/views/mixins.py; the       *)
(* account import of budgetis/bdi_import and the cached site configuration *)
(* of budgetis/core/models.py.                                             *)
(*                                                                         *)
(* Conventions.                                                            *)
(*  - A Decimal with two decimal places (Account.charges, Account.revenues *)
(*    and every sum of them) is an integer number of cents.                *)
(*  - A Python str is a sequence of one-character strings.                 *)
(*  - An optional value is a sequence of length 0 (None) or 1 (the value). *)
(*  - A Decimal with one decimal place (a percentage) is an integer number *)
(*    of tenths.                                                           *)
(*  - A process (an import task, a request) is a record of its position   *)
(*    and its local variables.                                             *)
(*  - float(Decimal) of a link value keeps the number of cents: the        *)
(*    conversion to the nearest double is injective and order preserving   *)
(*    on two-decimal amounts of the size the table can hold.               *)
(***************************************************************************)
EXTENDS Integers, Sequences, FiniteSets, TLC

VARIABLES accounts, call, response, log, task, sankey, site, cache, inflight

vars == <<accounts, call, response, log, task, sankey, site, cache, inflight>>

\* the state of the import task, of a Sankey request in progress and of the
\* site configuration, which the report operations leave alone
import_vars == <<log, task>>

site_vars == <<site, cache, inflight>>

None == <<>>
Some(x) == <<x>>

----------------------------------------------------------------------------
(* Bounds of the model. *)

MaxAccounts == 3

MaxTaxonomyAccounts == 2

----------------------------------------------------------------------------
(* Constants of finance/builders.py. *)

MIN_VAL == 50

REVENUE_NATURE_RANGE == <<400, 499>>
IMPOTS_NATURE_RANGE == <<400, 409>>
IMPOTS_NATURE_EXCLUDE == <<402, 404, 405>>
TAXES_NATURE_RANGE == <<430, 439>>
INTERESTS_NATURE == <<422, 424>>
RENTALS_NATURE == <<423, 425, 427>>

WAGES_NATURE_RANGE == <<301, 309>>
GOODS_NATURE_RANGE == <<310, 319>>
INTERESTS_NATURE_RANGE == <<320, 329>>
AIDS_NATURE_RANGE == <<360, 369>>

INTERCOS_NATURE_RANGE == <<350, 359>>

SOCIAL_SECURITY == <<"7","2","0",".","3","5","1">>
PEREQUATION == <<"2","2","0",".","3","5","2">>
POLICE == <<"6","0","0",".","3","5","1">>

AISGE ==
  << <<"5","0","0",".","3","5","2">>,
     <<"5","1","0",".","3","5","2">>,
     <<"5","1","0",".","3","6","6">>,
     <<"5","2","0",".","3","5","2">>,
     <<"5","2","0",".","3","6","6">>,
     <<"5","2","0",".","3","5","2">>,
     <<"5","3","0",".","3","5","1">>,
     <<"5","3","0",".","4","5","1">>,
     <<"5","5","0",".","3","5","2">>,
     <<"5","6","0",".","3","5","2">>,
     <<"5","7","0",".","3","5","2">> >>

APEC ==
  << <<"4","6","0",".","3","5","2">>,
     <<"4","6","0",".","3","5","2",".","1">> >>

TRANSPORTS_REGION == <<"1","8","0",".","3","5","1">>

ASSOCIATIONS ==
  << <<"1","6","0",".","3","5","2">>,
     <<"3","2","0",".","3","5","2">>,
     <<"3","2","0",".","3","5","2",".","1">>,
     <<"4","4","0",".","3","5","2">>,
     <<"5","4","0",".","3","5","2">>,
     <<"5","8","0",".","3","5","2">>,
     <<"6","5","0",".","3","5","2">>,
     <<"6","6","0",".","3","5","2">>,
     <<"7","1","0",".","3","5","2">>,
     <<"7","2","0",".","3","5","2">>,
     <<"8","1","0",".","3","5","2">>,
     <<"8","1","0",".","3","5","2",".","1">> >>

COLOR_IMPOTS == "#2066CF"
COLOR_RANDOM == "#5B8DEF"
COLOR_TAXES == "#F59E0B"
COLOR_RENTALS == "#2BB673"
COLOR_OTHERS == "#6B7280"
COLOR_BUDGET == "#111827"
COLOR_BUDGET_LINKS == "#9CA3AF"
COLOR_CANTON == "#15803D"
COLOR_CANTON_LINKS == "#4ADE80"
COLOR_CANTON_SOCIAL == "#86EFAC"
COLOR_CANTON_EQUALIZATION == "#4ADE80"
COLOR_CANTON_POLICE == "#22C55E"
COLOR_INTERCOS == "#6D28D9"
COLOR_INTERCOS_LINKS == "#C4B5FD"
COLOR_INTERCOS_AISGE == "#A78BFA"
COLOR_INTERCOS_APEC == "#C4B5FD"
COLOR_INTERCOS_TRANSPORTS == "#DDD6FE"
COLOR_INTERCOS_OTHER == "#EDE9FE"
COLOR_COMMUNE == "#D97706"
COLOR_COMMUNE_LINKS == "#FCD34D"
COLOR_COMMUNE_WAGES == "#FDE68A"
COLOR_COMMUNE_GOODS == "#FCD34D"
COLOR_COMMUNE_INTERESTS == "#FBBF24"
COLOR_COMMUNE_AIDS == "#F59E0B"
COLOR_RESULT == "#374151"

LABEL_HOUSEHOLD == "Municipal household"
LABEL_CANTON == "Canton"
LABEL_INTERCOMMUNALITIES == "Intercommunalities"
LABEL_COMMUNE == "Commune"
LABEL_SOCIAL == "Social security"
LABEL_EQUALIZATION == "Equalization"
LABEL_POLICE == "Police"
LABEL_AISGE == "AISGE"
LABEL_APEC == "APEC"
LABEL_TRANSPORTS == "Regional transports"
LABEL_INTERCOS_OTHER == "Other intercommunalities"
LABEL_WAGES == "Wages"
LABEL_GOODS == "Goods and services"
LABEL_INTERESTS == "Interests"
LABEL_AIDS == "Aids and subsidies"
LABEL_TAXES_GENERAL == "Taxes (general)"
LABEL_TAXES_RANDOM == "Random taxes"
LABEL_TAXES_USAGE == "Levies (usage-based)"
LABEL_RENTALS == "Rentals"
LABEL_REVENUES_OTHER == "Other revenues"
LABEL_RESULT_HUB == "Result"
LABEL_AMORT == "Amortizations"
LABEL_FUNDS == "Fund allocations"
LABEL_PROFIT == "Profit"

KEY_SOCIAL == "social"
KEY_EQUALIZATION == "equalization"
KEY_POLICE == "police"
KEY_TOTAL == "total"
KEY_AISGE == "aisge"
KEY_APEC == "apec"
KEY_TRANSPORTS == "transports_region"
KEY_INTERCOS_OTHER == "other_intercommunalities"
KEY_WAGES == "wages"
KEY_GOODS == "goods_services"
KEY_INTERESTS == "interests"
KEY_AIDS == "aids"
KEY_IMPOTS == "taxes_general"
KEY_RANDOMS == "random_taxes"
KEY_LEVIES == "levies_usage"
KEY_RENTALS == "rentals"
KEY_INTERESTS_REV == "interests_revenues"
KEY_OTHERS_REV == "other_revenues"
KEY_AMORT == "amortizations"
KEY_FUNDS == "fund_allocations"
KEY_PROFIT == "profit"

NODE_HOUSEHOLD == "household"
NODE_CANTON == "canton"
NODE_INTERCOS == "intercommunities"
NODE_COMMUNE == "commune"
NODE_RESULT == "result"

----------------------------------------------------------------------------
(* Python helpers. *)

Digits == {"0","1","2","3","4","5","6","7","8","9"}

DigitVal(c) ==
  CASE c = "0" -> 0 [] c = "1" -> 1 [] c = "2" -> 2 [] c = "3" -> 3
    [] c = "4" -> 4 [] c = "5" -> 5 [] c = "6" -> 6 [] c = "7" -> 7
    [] c = "8" -> 8 [] c = "9" -> 9

ToSet(seq) == {seq[i] : i \in 1..Len(seq)}

Max(a, b) == IF a >= b THEN a ELSE b

Abs(x) == IF x < 0 THEN -x ELSE x

\* str.isdigit(): non-empty and made of digits only.
IsDigit(s) == Len(s) > 0 /\ \A i \in 1..Len(s) : s[i] \in Digits

RECURSIVE DigitsValue(_)
DigitsValue(s) ==
  IF Len(s) = 0 THEN 0
  ELSE 10 * DigitsValue(SubSeq(s, 1, Len(s) - 1)) + DigitVal(s[Len(s)])

RECURSIVE Strip(_)
\* str.strip() for the blank character.
Strip(s) ==
  IF Len(s) > 0 /\ s[1] = " " THEN Strip(Tail(s))
  ELSE IF Len(s) > 0 /\ s[Len(s)] = " " THEN Strip(SubSeq(s, 1, Len(s) - 1))
  ELSE s

\* int(str): surrounding blanks and one sign are accepted, then digits.
Unsigned(t) == IF Len(t) > 0 /\ t[1] \in {"+", "-"} THEN Tail(t) ELSE t

IntOk(s) == \E t \in {Strip(s)} : IsDigit(Unsigned(t))

Signed(t) ==
  IF Len(t) > 0 /\ t[1] = "-" THEN -DigitsValue(Tail(t))
  ELSE DigitsValue(Unsigned(t))

IntValue(s) == CHOOSE v \in {Signed(t) : t \in {Strip(s)}} : TRUE

RECURSIVE Split(_, _)
\* str.split(sep) for a one-character separator.
Split(s, sep) ==
  IF \A i \in 1..Len(s) : s[i] # sep THEN <<s>>
  ELSE LET k == CHOOSE i \in 1..Len(s) :
                  s[i] = sep /\ \A j \in 1..(i - 1) : s[j] # sep
       IN  <<SubSeq(s, 1, k - 1)>> \o Split(SubSeq(s, k + 1, Len(s)), sep)

\* truthiness of an optional str: None and "" are falsy.
Truthy(opt) == opt # None /\ Len(opt[1]) > 0

----------------------------------------------------------------------------
(* accounting/models.py: the Account table. *)

\* The columns of Account. visible_in_report is the boolean column the
\* explorer queries filter on (views/mixins.py 24, 262, 274), the admin
\* actions set (admin.py 46, 50) and the importer copies (importers.py 131);
\* models.py carries its declaration, default True, as a comment (line 128).
AccountFields ==
  {"id", "year", "function", "nature", "sub_account", "label", "group",
   "is_budget", "charges", "revenues", "expected_type", "visible_in_report"}

\* unique_together of Account.Meta
UniqueKey(a) == <<a.year, a.function, a.nature, a.sub_account, a.is_budget>>

\* Options.get_field: FieldDoesNotExist unless the model declares the name.
FieldExists(name) == name \in AccountFields

----------------------------------------------------------------------------
(* finance/builders.py: code parsing and query helpers. *)

\* parse_fn_code after the split: ok = FALSE stands for the ValueError.
parse_parts(parts) ==
  IF Len(parts) <= 1
    THEN [ok |-> FALSE, function |-> 0, nature |-> 0, subaccount |-> None]
  ELSE IF ~IntOk(parts[1]) \/ ~IntOk(parts[2])
    THEN [ok |-> FALSE, function |-> 0, nature |-> 0, subaccount |-> None]
  ELSE [ok |-> TRUE,
        function |-> IntValue(parts[1]),
        nature |-> IntValue(parts[2]),
        subaccount |-> IF Len(parts) >= 3 THEN Some(parts[3]) ELSE None]

parse_fn_code(code) ==
  CHOOSE r \in {parse_parts(parts) : parts \in {Split(code, ".")}} : TRUE

\* Every code of the static taxonomy tables.
TaxonomyCodes ==
  {SOCIAL_SECURITY, PEREQUATION, POLICE, TRANSPORTS_REGION}
    \cup ToSet(AISGE) \cup ToSet(APEC) \cup ToSet(ASSOCIATIONS)

\* parse_fn_code of every static code, evaluated once.
ParsedTaxonomy == [c \in TaxonomyCodes |-> parse_fn_code(c)]

\* parse_fn_code(code) for a code of the static tables
Parsed(code) == ParsedTaxonomy[code]

\* q_from_code: the Q object of one code, evaluated on the row a.
q_from_code(code, a) ==
  \E p \in {Parsed(code)} :
    LET base == a.function = p.function /\ a.nature = p.nature
    IN  IF Truthy(p.subaccount)
          THEN IF FieldExists("subaccount")
                 THEN base /\ a["subaccount"] = Some(IntValue(p.subaccount[1]))
                 ELSE base
          ELSE base

\* q_from_codes: Q() | q1 | q2 ...; the empty Q() matches every row.
q_from_codes(codes, a) ==
  IF Len(codes) = 0 THEN TRUE
  ELSE \E i \in 1..Len(codes) : q_from_code(codes[i], a)

RECURSIVE SumOf(_, _)
SumOf(rows, field) ==
  IF rows = {} THEN 0
  ELSE LET a == CHOOSE x \in rows : TRUE
       IN  a[field] + SumOf(rows \ {a}, field)

\* aggregate(v=Sum(field))["v"]: NULL over no row.
Aggregate(rows, field) == IF rows = {} THEN None ELSE Some(SumOf(rows, field))

\* `v or Decimal("0")`
OrZero(v) == IF v = None THEN 0 ELSE IF v[1] = 0 THEN 0 ELSE v[1]

\* qs.filter(flt).aggregate(v=Sum(field))["v"] or Decimal("0"), flt being
\* the Q object as the set of the rows it accepts
FilterSum(qs, flt, field) ==
  CHOOSE t \in {OrZero(v) : v \in {Aggregate(rows, field) : rows \in {qs \cap flt}}} : TRUE

InRange(n, range) == range[1] <= n /\ n <= range[2]

sum_amount_for_codes(qs, codes, field) ==
  IF Len(codes) = 0 THEN 0
  ELSE FilterSum(qs, {a \in qs : q_from_codes(codes, a)}, field)

codes_with_nature(codes, target_nature) ==
  SelectSeq(codes, LAMBDA c : Parsed(c).nature = target_nature)

----------------------------------------------------------------------------
(* finance/builders.py: the revenue buckets. *)

RevenueKeys ==
  {KEY_IMPOTS, KEY_RANDOMS, KEY_LEVIES, KEY_RENTALS, KEY_INTERESTS_REV,
   KEY_OTHERS_REV}

\* bucket_q with the catch-all bucket forgetting to leave out the rental
\* and interest natures.
bucket_q_others_overlap(k, a) ==
  LET base == InRange(a.nature, REVENUE_NATURE_RANGE)
  IN  CASE k = KEY_IMPOTS -> (base /\ InRange(a.nature, IMPOTS_NATURE_RANGE)
                                   /\ a.nature \notin ToSet(IMPOTS_NATURE_EXCLUDE))
        [] k = KEY_RANDOMS -> (base /\ a.nature \in ToSet(IMPOTS_NATURE_EXCLUDE))
        [] k = KEY_LEVIES -> (base /\ InRange(a.nature, TAXES_NATURE_RANGE))
        [] k = KEY_RENTALS -> (base /\ a.nature \in ToSet(RENTALS_NATURE))
        [] k = KEY_INTERESTS_REV -> (base /\ a.nature \in ToSet(INTERESTS_NATURE))
        [] k = KEY_OTHERS_REV ->
             (base /\ ~InRange(a.nature, IMPOTS_NATURE_RANGE)
                   /\ ~InRange(a.nature, TAXES_NATURE_RANGE))

\* The filter chain of each bucket of _compute_bucket_sums, on the row a.
bucket_q(k, a) ==
  LET base == InRange(a.nature, REVENUE_NATURE_RANGE)
  IN  CASE k = KEY_IMPOTS -> (base /\ InRange(a.nature, IMPOTS_NATURE_RANGE)
                                   /\ a.nature \notin ToSet(IMPOTS_NATURE_EXCLUDE))
        [] k = KEY_RANDOMS -> (base /\ a.nature \in ToSet(IMPOTS_NATURE_EXCLUDE))
        [] k = KEY_LEVIES -> (base /\ InRange(a.nature, TAXES_NATURE_RANGE))
        [] k = KEY_RENTALS -> (base /\ a.nature \in ToSet(RENTALS_NATURE))
        [] k = KEY_INTERESTS_REV -> (base /\ a.nature \in ToSet(INTERESTS_NATURE))
        [] k = KEY_OTHERS_REV ->
             (base /\ ~InRange(a.nature, IMPOTS_NATURE_RANGE)
                   /\ ~InRange(a.nature, TAXES_NATURE_RANGE)
                   /\ a.nature \notin ToSet(RENTALS_NATURE \o INTERESTS_NATURE))

_compute_bucket_sums(qs) ==
  [k \in RevenueKeys |->
     FilterSum(qs, {a \in qs : bucket_q(k, a)}, "revenues")]

----------------------------------------------------------------------------
(* finance/builders.py: the charge breakdowns. *)

CantonKeys == {KEY_SOCIAL, KEY_EQUALIZATION, KEY_POLICE}
IntercosKeys == {KEY_AISGE, KEY_APEC, KEY_TRANSPORTS, KEY_INTERCOS_OTHER}
CommuneKeys == {KEY_WAGES, KEY_GOODS, KEY_INTERESTS, KEY_AIDS}

\* The code filters of compute_canton_breakdown, on the row a.
canton_q(k, a) ==
  CASE k = KEY_SOCIAL -> q_from_codes(<<SOCIAL_SECURITY>>, a)
    [] k = KEY_EQUALIZATION -> q_from_codes(<<PEREQUATION>>, a)
    [] k = KEY_POLICE -> q_from_codes(<<POLICE>>, a)

\* compute_canton_breakdown returning the raw sums of the leaves.
compute_canton_breakdown_unclamped(qs) ==
  LET social == sum_amount_for_codes(qs, <<SOCIAL_SECURITY>>, "charges")
      pereq == sum_amount_for_codes(qs, <<PEREQUATION>>, "charges")
      police == sum_amount_for_codes(qs, <<POLICE>>, "charges")
      total == social + pereq + police
  IN  (KEY_SOCIAL :> social)
   @@ (KEY_EQUALIZATION :> pereq)
   @@ (KEY_POLICE :> police)
   @@ (KEY_TOTAL :> Max(0, total))

compute_canton_breakdown(qs) ==
  LET social == sum_amount_for_codes(qs, <<SOCIAL_SECURITY>>, "charges")
      pereq == sum_amount_for_codes(qs, <<PEREQUATION>>, "charges")
      police == sum_amount_for_codes(qs, <<POLICE>>, "charges")
      total == social + pereq + police
  IN  (KEY_SOCIAL :> Max(0, social))
   @@ (KEY_EQUALIZATION :> Max(0, pereq))
   @@ (KEY_POLICE :> Max(0, police))
   @@ (KEY_TOTAL :> Max(0, total))

\* intercos_q without the exclusion of the three canton codes.
intercos_q_keeps_canton(k, a) ==
  LET q_aisge == q_from_codes(AISGE, a)
      q_apec == q_from_codes(APEC, a)
      q_trans == q_from_codes(<<TRANSPORTS_REGION>>, a)
      q_intercos_base == InRange(a.nature, INTERCOS_NATURE_RANGE)
      q_exclude == q_aisge \/ q_apec \/ q_trans
      q_intercos_autres == q_intercos_base /\ ~q_exclude
  IN  CASE k = KEY_AISGE -> q_aisge
        [] k = KEY_APEC -> q_apec
        [] k = KEY_TRANSPORTS -> q_trans
        [] k = KEY_INTERCOS_OTHER -> q_intercos_autres

\* The Q objects of compute_intercos, on the row a.
intercos_q(k, a) ==
  LET q_aisge == q_from_codes(AISGE, a)
      q_apec == q_from_codes(APEC, a)
      q_trans == q_from_codes(<<TRANSPORTS_REGION>>, a)
      q_canton == q_from_codes(<<SOCIAL_SECURITY, PEREQUATION, POLICE>>, a)
      q_intercos_base == InRange(a.nature, INTERCOS_NATURE_RANGE)
      q_exclude == q_aisge \/ q_apec \/ q_trans \/ q_canton
      q_intercos_autres == q_intercos_base /\ ~q_exclude
  IN  CASE k = KEY_AISGE -> q_aisge
    [] k = KEY_APEC -> q_apec
    [] k = KEY_TRANSPORTS -> q_trans
    [] k = KEY_INTERCOS_OTHER -> q_intercos_autres

\* sum_field: flt is the Q object as the set of the rows it accepts.
sum_field(qs, flt, field) == FilterSum(qs, flt, field)

\* compute_intercos with a total that leaves the transports out.
compute_intercos_total_misses_transports(qs) ==
  LET aisge == sum_field(qs, {a \in qs : intercos_q(KEY_AISGE, a)}, "charges")
      apec == sum_field(qs, {a \in qs : intercos_q(KEY_APEC, a)}, "charges")
      trans == sum_field(qs, {a \in qs : intercos_q(KEY_TRANSPORTS, a)}, "charges")
      autres == sum_field(qs, {a \in qs : intercos_q(KEY_INTERCOS_OTHER, a)}, "charges")
      total == aisge + apec + autres
  IN  (KEY_AISGE :> Max(0, aisge))
   @@ (KEY_APEC :> Max(0, apec))
   @@ (KEY_TRANSPORTS :> Max(0, trans))
   @@ (KEY_INTERCOS_OTHER :> Max(0, autres))
   @@ (KEY_TOTAL :> Max(0, total))

compute_intercos(qs) ==
  LET aisge == sum_field(qs, {a \in qs : intercos_q(KEY_AISGE, a)}, "charges")
      apec == sum_field(qs, {a \in qs : intercos_q(KEY_APEC, a)}, "charges")
      trans == sum_field(qs, {a \in qs : intercos_q(KEY_TRANSPORTS, a)}, "charges")
      autres == sum_field(qs, {a \in qs : intercos_q(KEY_INTERCOS_OTHER, a)}, "charges")
      total == aisge + apec + trans + autres
  IN  (KEY_AISGE :> Max(0, aisge))
   @@ (KEY_APEC :> Max(0, apec))
   @@ (KEY_TRANSPORTS :> Max(0, trans))
   @@ (KEY_INTERCOS_OTHER :> Max(0, autres))
   @@ (KEY_TOTAL :> Max(0, total))

\* commune_q with aids that keep the AISGE codes of nature 366.
commune_q_keeps_aisge(k, a) ==
  CASE k = KEY_WAGES -> InRange(a.nature, WAGES_NATURE_RANGE)
    [] k = KEY_GOODS -> InRange(a.nature, GOODS_NATURE_RANGE)
    [] k = KEY_INTERESTS -> InRange(a.nature, INTERESTS_NATURE_RANGE)
    [] k = KEY_AIDS -> InRange(a.nature, AIDS_NATURE_RANGE)

\* The range filters and the aids Q object of compute_commune_breakdown.
commune_q(k, a) ==
  LET q_aides_base == InRange(a.nature, AIDS_NATURE_RANGE)
      aisge_366_codes == codes_with_nature(AISGE, 366)
      \* the negation of the empty Q() filters nothing
      not_q_excl_aisge_366 == IF Len(aisge_366_codes) > 0
                                THEN ~q_from_codes(aisge_366_codes, a)
                                ELSE TRUE
  IN  CASE k = KEY_WAGES -> InRange(a.nature, WAGES_NATURE_RANGE)
    [] k = KEY_GOODS -> InRange(a.nature, GOODS_NATURE_RANGE)
    [] k = KEY_INTERESTS -> InRange(a.nature, INTERESTS_NATURE_RANGE)
    [] k = KEY_AIDS -> (q_aides_base /\ not_q_excl_aisge_366)

\* compute_commune_breakdown with a total that leaves the aids out
compute_commune_breakdown_total_misses_aids(qs) ==
  LET wages == sum_field(qs, {a \in qs : commune_q(KEY_WAGES, a)}, "charges")
      goods == sum_field(qs, {a \in qs : commune_q(KEY_GOODS, a)}, "charges")
      interests == sum_field(qs, {a \in qs : commune_q(KEY_INTERESTS, a)}, "charges")
      aids == sum_field(qs, {a \in qs : commune_q(KEY_AIDS, a)}, "charges")
      total == wages + goods + interests
  IN  (KEY_WAGES :> Max(0, wages))
   @@ (KEY_GOODS :> Max(0, goods))
   @@ (KEY_INTERESTS :> Max(0, interests))
   @@ (KEY_AIDS :> Max(0, aids))
   @@ (KEY_TOTAL :> Max(0, total))

compute_commune_breakdown(qs) ==
  LET wages == sum_field(qs, {a \in qs : commune_q(KEY_WAGES, a)}, "charges")
      goods == sum_field(qs, {a \in qs : commune_q(KEY_GOODS, a)}, "charges")
      interests == sum_field(qs, {a \in qs : commune_q(KEY_INTERESTS, a)}, "charges")
      aids == sum_field(qs, {a \in qs : commune_q(KEY_AIDS, a)}, "charges")
      total == wages + goods + interests + aids
  IN  (KEY_WAGES :> Max(0, wages))
   @@ (KEY_GOODS :> Max(0, goods))
   @@ (KEY_INTERESTS :> Max(0, interests))
   @@ (KEY_AIDS :> Max(0, aids))
   @@ (KEY_TOTAL :> Max(0, total))

----------------------------------------------------------------------------
(* finance/builders.py: nodes, links and the graph. *)

\* _fmt_chf_short: the amount in hundredths of the unit K or M, half up.
_fmt_chf_short(value) ==
  LET v == Abs(value)
  IN  IF v >= 100000000
        THEN [n |-> (v + 500000) \div 1000000, unit |-> "M"]
        ELSE [n |-> (v + 500) \div 1000, unit |-> "K"]

\* _node_label: the label alone, or the label over the short amount.
_node_label(label, val) ==
  IF val > 0 THEN [label |-> label, chf |-> Some(_fmt_chf_short(val))]
  ELSE [label |-> label, chf |-> None]

EmptyGraph ==
  [idx |-> <<>>, labels |-> <<>>, nodes |-> <<>>, node_colors |-> <<>>,
   links |-> <<>>, link_colors |-> <<>>]

_push_node(g, key, label, value, color) ==
  LET name == _node_label(label, value)
  IN  [g EXCEPT !.idx = (key :> Len(g.labels)) @@ g.idx,
                !.labels = Append(g.labels, name),
                !.nodes = Append(g.nodes, [name |-> name]),
                !.node_colors = Append(g.node_colors, color)]

_add_link(g, src_key, dst_key, value, color) ==
  IF value # 0 /\ value > 0
    THEN [g EXCEPT !.links = Append(g.links,
                                    [source |-> g.idx[src_key],
                                     target |-> g.idx[dst_key],
                                     value |-> value]),
                   !.link_colors = Append(g.link_colors, color)]
    ELSE g

RECURSIVE PushNodes(_, _)
\* consecutive _push_node calls, each entry <<key, label, value, color>>
PushNodes(g, entries) ==
  IF Len(entries) = 0 THEN g
  ELSE LET e == entries[1]
       IN  PushNodes(_push_node(g, e[1], e[2], e[3], e[4]), Tail(entries))

RECURSIVE AddLinks(_, _)
\* consecutive _add_link calls, each entry <<src_key, dst_key, value, color>>
AddLinks(g, entries) ==
  IF Len(entries) = 0 THEN g
  ELSE LET e == entries[1]
       IN  AddLinks(_add_link(g, e[1], e[2], e[3], e[4]), Tail(entries))

RECURSIVE SumSeq(_)
SumSeq(s) == IF Len(s) = 0 THEN 0 ELSE s[1] + SumSeq(Tail(s))

left ==
  << <<KEY_IMPOTS, LABEL_TAXES_GENERAL, COLOR_IMPOTS>>,
     <<KEY_RANDOMS, LABEL_TAXES_RANDOM, COLOR_RANDOM>>,
     <<KEY_LEVIES, LABEL_TAXES_USAGE, COLOR_TAXES>>,
     <<KEY_RENTALS, LABEL_RENTALS, COLOR_RENTALS>>,
     <<KEY_INTERESTS_REV, LABEL_INTERESTS, COLOR_OTHERS>>,
     <<KEY_OTHERS_REV, LABEL_REVENUES_OTHER, COLOR_OTHERS>> >>

\* a result block that is added whatever the remainder
result_block_unconditional(g, remainder) ==
  LET amort_val == 0
      funds_val == 0
      profit_val == remainder - amort_val - funds_val
      g1 == PushNodes(g,
              << <<NODE_RESULT, LABEL_RESULT_HUB, remainder, COLOR_RESULT>>,
                 <<KEY_AMORT, LABEL_AMORT, amort_val, COLOR_RESULT>>,
                 <<KEY_FUNDS, LABEL_FUNDS, funds_val, COLOR_RESULT>>,
                 <<KEY_PROFIT, LABEL_PROFIT, profit_val, COLOR_RESULT>> >>)
  IN  AddLinks(g1,
        << <<NODE_HOUSEHOLD, NODE_RESULT, remainder, COLOR_BUDGET_LINKS>>,
           <<NODE_RESULT, KEY_AMORT, amort_val, COLOR_RESULT>>,
           <<NODE_RESULT, KEY_FUNDS, funds_val, COLOR_RESULT>>,
           <<NODE_RESULT, KEY_PROFIT, profit_val, COLOR_RESULT>> >>)

\* The result block of the builder: nodes and links of the remainder.
result_block(g, remainder) ==
  IF Abs(remainder) > MIN_VAL
    THEN LET amort_val == 0
             funds_val == 0
             profit_val == remainder - amort_val - funds_val
             g1 == PushNodes(g,
                     << <<NODE_RESULT, LABEL_RESULT_HUB, remainder, COLOR_RESULT>>,
                        <<KEY_AMORT, LABEL_AMORT, amort_val, COLOR_RESULT>>,
                        <<KEY_FUNDS, LABEL_FUNDS, funds_val, COLOR_RESULT>>,
                        <<KEY_PROFIT, LABEL_PROFIT, profit_val, COLOR_RESULT>> >>)
         IN  AddLinks(g1,
               << <<NODE_HOUSEHOLD, NODE_RESULT, remainder, COLOR_BUDGET_LINKS>>,
                  <<NODE_RESULT, KEY_AMORT, amort_val, COLOR_RESULT>>,
                  <<NODE_RESULT, KEY_FUNDS, funds_val, COLOR_RESULT>>,
                  <<NODE_RESULT, KEY_PROFIT, profit_val, COLOR_RESULT>> >>)
    ELSE g

\* The body of build_income_budget_canton_intercos_commune after the four
\* breakdowns: its local variables when it returns.
frame_of(qs, rev, canton, inter, commune) ==
  LET left_vals == [i \in 1..Len(left) |-> Max(0, rev[left[i][1]])]
      total_left == SumSeq(left_vals)
      total_canton == Max(0, canton[KEY_TOTAL])
      total_inter == Max(0, inter[KEY_TOTAL])
      total_commune == Max(0, commune[KEY_TOTAL])
      g1 == PushNodes(EmptyGraph,
              [i \in 1..Len(left) |->
                 <<left[i][1], left[i][2], left_vals[i], left[i][3]>>])
      g2 == PushNodes(g1,
              << <<NODE_HOUSEHOLD, LABEL_HOUSEHOLD, total_left, COLOR_BUDGET>>,
                 <<NODE_CANTON, LABEL_CANTON, total_canton, COLOR_CANTON>>,
                 <<NODE_INTERCOS, LABEL_INTERCOMMUNALITIES, total_inter, COLOR_INTERCOS>>,
                 <<NODE_COMMUNE, LABEL_COMMUNE, total_commune, COLOR_COMMUNE>>,
                 <<KEY_SOCIAL, LABEL_SOCIAL, canton[KEY_SOCIAL], COLOR_CANTON_SOCIAL>>,
                 <<KEY_EQUALIZATION, LABEL_EQUALIZATION, canton[KEY_EQUALIZATION],
                   COLOR_CANTON_EQUALIZATION>>,
                 <<KEY_POLICE, LABEL_POLICE, canton[KEY_POLICE], COLOR_CANTON_POLICE>>,
                 <<KEY_AISGE, LABEL_AISGE, inter[KEY_AISGE], COLOR_INTERCOS_AISGE>>,
                 <<KEY_APEC, LABEL_APEC, inter[KEY_APEC], COLOR_INTERCOS_APEC>>,
                 <<KEY_TRANSPORTS, LABEL_TRANSPORTS, inter[KEY_TRANSPORTS],
                   COLOR_INTERCOS_TRANSPORTS>>,
                 <<KEY_INTERCOS_OTHER, LABEL_INTERCOS_OTHER, inter[KEY_INTERCOS_OTHER],
                   COLOR_INTERCOS_OTHER>>,
                 <<KEY_WAGES, LABEL_WAGES, commune[KEY_WAGES], COLOR_COMMUNE_WAGES>>,
                 <<KEY_GOODS, LABEL_GOODS, commune[KEY_GOODS], COLOR_COMMUNE_GOODS>>,
                 <<KEY_INTERESTS, LABEL_INTERESTS, commune[KEY_INTERESTS],
                   COLOR_COMMUNE_INTERESTS>>,
                 <<KEY_AIDS, LABEL_AIDS, commune[KEY_AIDS], COLOR_COMMUNE_AIDS>> >>)
      g3 == AddLinks(g2,
              [i \in 1..Len(left) |->
                 <<left[i][1], NODE_HOUSEHOLD, left_vals[i], left[i][3]>>])
      g4 == AddLinks(g3,
              << <<NODE_HOUSEHOLD, NODE_CANTON, total_canton, COLOR_BUDGET_LINKS>>,
                 <<NODE_HOUSEHOLD, NODE_INTERCOS, total_inter, COLOR_BUDGET_LINKS>>,
                 <<NODE_HOUSEHOLD, NODE_COMMUNE, total_commune, COLOR_BUDGET_LINKS>>,
                 <<NODE_CANTON, KEY_SOCIAL, canton[KEY_SOCIAL], COLOR_CANTON_LINKS>>,
                 <<NODE_CANTON, KEY_EQUALIZATION, canton[KEY_EQUALIZATION],
                   COLOR_CANTON_LINKS>>,
                 <<NODE_CANTON, KEY_POLICE, canton[KEY_POLICE], COLOR_CANTON_LINKS>>,
                 <<NODE_INTERCOS, KEY_AISGE, inter[KEY_AISGE], COLOR_INTERCOS_LINKS>>,
                 <<NODE_INTERCOS, KEY_APEC, inter[KEY_APEC], COLOR_INTERCOS_LINKS>>,
                 <<NODE_INTERCOS, KEY_TRANSPORTS, inter[KEY_TRANSPORTS],
                   COLOR_INTERCOS_LINKS>>,
                 <<NODE_INTERCOS, KEY_INTERCOS_OTHER, inter[KEY_INTERCOS_OTHER],
                   COLOR_INTERCOS_LINKS>>,
                 <<NODE_COMMUNE, KEY_WAGES, commune[KEY_WAGES], COLOR_COMMUNE_LINKS>>,
                 <<NODE_COMMUNE, KEY_GOODS, commune[KEY_GOODS], COLOR_COMMUNE_LINKS>>,
                 <<NODE_COMMUNE, KEY_INTERESTS, commune[KEY_INTERESTS],
                   COLOR_COMMUNE_LINKS>>,
                 <<NODE_COMMUNE, KEY_AIDS, commune[KEY_AIDS], COLOR_COMMUNE_LINKS>> >>)
      total_out == total_canton + total_inter + total_commune
      remainder == total_left - total_out
      frame(g5) ==
       [qs |-> qs, rev |-> rev, canton |-> canton, inter |-> inter,
       commune |-> commune, left_vals |-> left_vals,
       total_left |-> total_left, total_canton |-> total_canton,
       total_inter |-> total_inter, total_commune |-> total_commune,
       total_out |-> total_out, remainder |-> remainder,
       idx |-> g5.idx, nodes |-> g5.nodes, links |-> g5.links,
       link_colors |-> g5.link_colors, node_colors |-> g5.node_colors]
  IN  CHOOSE f \in {frame(g) : g \in {result_block(g4, remainder)}} : TRUE

\* The four breakdowns are computed once each, then the graph is built.
builder_frame(qs) ==
  CHOOSE f \in {frame_of(qs, rev, canton, inter, commune) :
                  rev \in {_compute_bucket_sums(qs)},
                  canton \in {compute_canton_breakdown(qs)},
                  inter \in {compute_intercos(qs)},
                  commune \in {compute_commune_breakdown(qs)}} : TRUE

build_income_budget_canton_intercos_commune(qs) ==
  LET f == builder_frame(qs)
  IN  [nodes |-> f.nodes, links |-> f.links,
       link_colors |-> f.link_colors, node_colors |-> f.node_colors]

----------------------------------------------------------------------------
(* The state machine. *)

Years == {2024}

\* the query string of a request to SankeyDataView: ?year=...
YearParams == { <<>>, <<"2","0","2","4">>, <<"2","0","2","x">> }

\* (function, nature, sub_account) of the rows of the flow scenarios
FlowKeys ==
  { <<170, 401, None>>, <<600, 351, None>>, <<720, 351, None>> }

\* <<charges, revenues>> in cents
FlowAmounts ==
  { <<0, 100000>>, <<0, 90000>>, <<0, 20050>>, <<20000, 0>>, <<-10000, 0>> }

FlowRows ==
  { [year |-> y, function |-> k[1], nature |-> k[2], sub_account |-> k[3],
     is_budget |-> b, charges |-> m[1], revenues |-> m[2]] :
      y \in Years, k \in FlowKeys, b \in BOOLEAN, m \in FlowAmounts }

\* (function, nature, sub_account) of the rows of the taxonomy scenarios
TaxonomyKeys ==
  { <<210, 401, None>>, <<210, 402, None>>, <<450, 434, None>>,
    <<350, 423, None>>, <<220, 422, None>>, <<450, 465, None>>,
    <<530, 451, None>>, <<210, 500, None>>,
    <<720, 351, None>>, <<220, 352, None>>, <<600, 351, None>>,
    <<510, 352, None>>, <<510, 366, None>>,
    <<460, 352, None>>, <<460, 352, Some(1)>>, <<460, 352, Some(2)>>,
    <<180, 351, None>>, <<650, 352, None>>, <<430, 351, None>>,
    <<170, 301, None>>, <<170, 311, None>>, <<220, 322, None>>,
    <<170, 365, None>>, <<170, 366, None>> }

TaxonomyAmounts == { <<12000, 7000>>, <<-300, -45>> }

TaxonomyRows ==
  { [year |-> y, function |-> k[1], nature |-> k[2], sub_account |-> k[3],
     is_budget |-> FALSE, charges |-> m[1], revenues |-> m[2]] :
      y \in Years, k \in TaxonomyKeys, m \in TaxonomyAmounts }

\* no import task, no Sankey request and no site configuration call is
\* running; no import log, no SiteConfiguration row and no cache entry exist
Idle ==
  /\ log = None /\ task = None
  /\ sankey = None
  /\ site = None /\ cache = None /\ inflight = <<>>

Init ==
  /\ accounts = {}
  /\ call = None
  /\ response = None
  /\ Idle

\* Account.objects.create / the admin's add form: a new row, refused by the
\* unique_together constraint when the key is taken.
AddAccount(row, limit) ==
  /\ Cardinality(accounts) < limit
  /\ \A a \in accounts : UniqueKey(a) # UniqueKey(row)
  /\ accounts' = accounts \cup {row}
  /\ call' = None
  /\ response' = None
  /\ UNCHANGED <<import_vars, sankey, site_vars>>

\* SankeyDataView.get with a missing or non-numeric year: status 400.
SankeyDataView_get_invalid(year_str) ==
  /\ ~IsDigit(year_str)
  /\ response' = Some([status |-> 400, error |-> "Missing or invalid 'year'."])
  /\ call' = None
  /\ UNCHANGED <<accounts, import_vars, sankey, site_vars>>

\* SankeyDataView.get with a numeric year: the graph of the actual rows.
SankeyDataView_get(year_str) ==
  /\ IsDigit(year_str)
  /\ LET year == IntValue(year_str)
         qs == {a \in accounts : a.year = year /\ a.is_budget = FALSE}
     IN  \E f \in {builder_frame(qs)} :
         /\ call' = Some(f)
         /\ response' = Some([status |-> 200,
                              data |-> [nodes |-> f.nodes, links |-> f.links,
                                        link_colors |-> f.link_colors,
                                        node_colors |-> f.node_colors]])
  /\ UNCHANGED <<accounts, import_vars, sankey, site_vars>>

Next ==
  \/ \E row \in FlowRows : AddAccount(row, MaxAccounts)
  \/ \E y \in YearParams : SankeyDataView_get_invalid(y)
  \/ \E y \in YearParams : SankeyDataView_get(y)

Spec == Init /\ [][Next]_vars

NextTaxonomy ==
  \/ \E row \in TaxonomyRows : AddAccount(row, MaxTaxonomyAccounts)
  \/ \E y \in YearParams : SankeyDataView_get_invalid(y)
  \/ \E y \in YearParams : SankeyDataView_get(y)

SpecTaxonomy == Init /\ [][NextTaxonomy]_vars

----------------------------------------------------------------------------
(* Reading a returned graph. *)

HasCall == call # None

Frame == call[1]

HasNode(f, key) == key \in DOMAIN f.idx

KeyOf(f, i) == CHOOSE k \in DOMAIN f.idx : f.idx[k] = i

LinkIndexes(f, src_key, dst_key) ==
  {i \in 1..Len(f.links) :
     /\ HasNode(f, src_key) /\ f.links[i].source = f.idx[src_key]
     /\ HasNode(f, dst_key) /\ f.links[i].target = f.idx[dst_key]}

LinksOutOf(f, key) ==
  {i \in 1..Len(f.links) : HasNode(f, key) /\ f.links[i].source = f.idx[key]}

LinksInto(f, key) ==
  {i \in 1..Len(f.links) : HasNode(f, key) /\ f.links[i].target = f.idx[key]}

RECURSIVE LinkValueSum(_, _)
LinkValueSum(f, indexes) ==
  IF indexes = {} THEN 0
  ELSE LET i == CHOOSE x \in indexes : TRUE
       IN  f.links[i].value + LinkValueSum(f, indexes \ {i})

LinkSet(f) ==
  {<<KeyOf(f, f.links[i].source), KeyOf(f, f.links[i].target), f.links[i].value>> :
     i \in 1..Len(f.links)}

Row(y, fn, nat, sub, budget, ch, rv) ==
  [year |-> y, function |-> fn, nature |-> nat, sub_account |-> sub,
   is_budget |-> budget, charges |-> ch, revenues |-> rv]

----------------------------------------------------------------------------
(* Claims. *)

\* C1: in every returned graph the values of the links leaving the
\* household node add up to the values of the links entering it, also when
\* the charges exceed the revenues and when the gap is at most 0.5.
C1_HouseholdFlowConserved ==
  HasCall =>
    LinkValueSum(Frame, LinksOutOf(Frame, NODE_HOUSEHOLD))
      = LinkValueSum(Frame, LinksInto(Frame, NODE_HOUSEHOLD))

\* the residual as the claims define it: the six revenue bucket totals
\* minus the three hub totals
ClaimResidual(f) ==
  (f.rev[KEY_IMPOTS] + f.rev[KEY_RANDOMS] + f.rev[KEY_LEVIES]
     + f.rev[KEY_RENTALS] + f.rev[KEY_INTERESTS_REV] + f.rev[KEY_OTHERS_REV])
  - (f.canton[KEY_TOTAL] + f.inter[KEY_TOTAL] + f.commune[KEY_TOTAL])

\* C2: a residual of absolute value above 0.5, of either sign, gives a
\* result node and one link household -> result carrying the residual; a
\* residual of absolute value at most 0.5 gives neither.
C2_ResultNodeAndLink ==
  HasCall =>
    LET r == ClaimResidual(Frame)
        onResult == LinkIndexes(Frame, NODE_HOUSEHOLD, NODE_RESULT)
    IN  /\ Abs(r) > MIN_VAL =>
             /\ HasNode(Frame, NODE_RESULT)
             /\ Cardinality(onResult) = 1
             /\ \A i \in onResult : Frame.links[i].value = r
        /\ Abs(r) <= MIN_VAL =>
             /\ ~HasNode(Frame, NODE_RESULT)
             /\ onResult = {}

C3_Accounts ==
  { Row(2024, 170, 401, None, FALSE, 0, 100000),
    Row(2024, 600, 351, None, FALSE, 20000, 0),
    Row(2024, 170, 401, None, TRUE, 0, 90000) }

\* C3: for the three accounts of the example (actual 170.401 revenues 1000,
\* actual 600.351 charges 200, budget 170.401 revenues 900) the graph of the
\* actual accounts has exactly the links general-tax -> household 1000,
\* household -> canton 200, canton -> police 200, household -> result 800
\* and result -> profit 800.
C3_ExampleGraph ==
  (HasCall /\ accounts = C3_Accounts) =>
    /\ Len(Frame.links) = 5
    /\ LinkSet(Frame) =
         { <<KEY_IMPOTS, NODE_HOUSEHOLD, 100000>>,
           <<NODE_HOUSEHOLD, NODE_CANTON, 20000>>,
           <<NODE_CANTON, KEY_POLICE, 20000>>,
           <<NODE_HOUSEHOLD, NODE_RESULT, 80000>>,
           <<NODE_RESULT, KEY_PROFIT, 80000>> }
    /\ response = Some([status |-> 200,
                        data |-> [nodes |-> Frame.nodes, links |-> Frame.links,
                                  link_colors |-> Frame.link_colors,
                                  node_colors |-> Frame.node_colors]])

C3_Witness == HasCall /\ accounts = C3_Accounts

\* the buckets in which _compute_bucket_sums counts the row a
BucketsOf(a) == {k \in RevenueKeys : bucket_q(k, a)}

\* C4: an account of nature 400..499 has its revenues counted in exactly one
\* of the six revenue buckets, an account of another nature in none.
C4_RevenuePartition ==
  \A a \in accounts :
    \E sums \in {_compute_bucket_sums({a})}, buckets \in {BucketsOf(a)} :
      IF InRange(a.nature, REVENUE_NATURE_RANGE)
        THEN /\ Cardinality(buckets) = 1
             /\ \A k \in RevenueKeys :
                  sums[k] = IF k \in buckets THEN a.revenues ELSE 0
        ELSE /\ buckets = {}
             /\ \A k \in RevenueKeys : sums[k] = 0

C4_Witness ==
  /\ \E a \in accounts : a.nature \in ToSet(RENTALS_NATURE) /\ a.revenues # 0
  /\ \E a \in accounts :
       ~InRange(a.nature, REVENUE_NATURE_RANGE) /\ a.revenues # 0

\* the charge-axis leaves in which the row a is counted
LeavesOf(a) ==
  {k \in CantonKeys : canton_q(k, a)}
    \cup {k \in IntercosKeys : intercos_q(k, a)}
    \cup {k \in CommuneKeys : commune_q(k, a)}

\* C5: the charges of an account are counted in at most one of the eleven
\* charge-axis leaf totals: a canton, AISGE, APEC or transport code is not
\* also in other_intercommunalities, an AISGE code of nature 366 not in aids.
C5_ChargeLeavesExclusive ==
  \A a \in accounts :
    \E leaves \in {LeavesOf(a)} :
      /\ Cardinality(leaves) <= 1
      /\ leaves \cap {KEY_SOCIAL, KEY_EQUALIZATION, KEY_POLICE, KEY_AISGE,
                      KEY_APEC, KEY_TRANSPORTS} # {}
           => KEY_INTERCOS_OTHER \notin leaves
      /\ KEY_AISGE \in leaves => KEY_AIDS \notin leaves

C5_Witness ==
  /\ \E a \in accounts :
       a.function = 510 /\ a.nature = 366 /\ a.charges > 0
  /\ \E a \in accounts :
       a.function = 600 /\ a.nature = 351 /\ a.charges > 0

NonNegative(qs) == \A a \in qs : a.charges >= 0 /\ a.revenues >= 0

\* C6: with non-negative amounts the six revenue bucket totals add up to the
\* revenues of the accounts of nature 400..499, and the three hub totals add
\* up to the charges of the accounts that fall in some charge-axis leaf.
C6_SumConservation ==
  (HasCall /\ NonNegative(Frame.qs)) =>
    /\ Frame.rev[KEY_IMPOTS] + Frame.rev[KEY_RANDOMS] + Frame.rev[KEY_LEVIES]
         + Frame.rev[KEY_RENTALS] + Frame.rev[KEY_INTERESTS_REV]
         + Frame.rev[KEY_OTHERS_REV]
       = SumOf({a \in Frame.qs : InRange(a.nature, REVENUE_NATURE_RANGE)},
               "revenues")
    /\ Frame.canton[KEY_TOTAL] + Frame.inter[KEY_TOTAL]
         + Frame.commune[KEY_TOTAL]
       = SumOf({a \in Frame.qs : LeavesOf(a) # {}}, "charges")

C6_Witness ==
  /\ HasCall
  /\ NonNegative(Frame.qs)
  /\ Cardinality({a \in Frame.qs : LeavesOf(a) # {}}) = 2
  /\ Frame.canton[KEY_TOTAL] > 0
  /\ Frame.inter[KEY_TOTAL] > 0
  /\ Cardinality({a \in Frame.qs :
                    InRange(a.nature, REVENUE_NATURE_RANGE)}) = 1

\* the sub_account a code names: none, or the integer of its third segment
CodeSubAccount(code) ==
  LET p == Parsed(code)
  IN  IF p.subaccount = None THEN None ELSE Some(IntValue(p.subaccount[1]))

\* the rows whose function, nature and sub_account all equal the code's
RowsOfCode(qs, code) ==
  {a \in qs : /\ a.function = Parsed(code).function
              /\ a.nature = Parsed(code).nature
              /\ a.sub_account = CodeSubAccount(code)}

\* C7: through an explicit code with a sub-account segment the total sums
\* the charges of the accounts whose function, nature and sub_account all
\* equal the code's, and of no other account.
C7_CodeMatchesSubAccount ==
  \A code \in TaxonomyCodes :
    Truthy(Parsed(code).subaccount) =>
      sum_amount_for_codes(accounts, <<code>>, "charges")
        = SumOf(RowsOfCode(accounts, code), "charges")

\* C8: other_intercommunalities is the charges of nature 350..359 without
\* the canton codes and without the AISGE, APEC, transport and associations
\* lists.
C8_OtherExcludesAssociations ==
  HasCall =>
    Frame.inter[KEY_INTERCOS_OTHER] =
      Max(0, SumOf({a \in Frame.qs :
                      /\ InRange(a.nature, INTERCOS_NATURE_RANGE)
                      /\ ~q_from_codes(<<SOCIAL_SECURITY, PEREQUATION, POLICE>>, a)
                      /\ ~q_from_codes(AISGE, a)
                      /\ ~q_from_codes(APEC, a)
                      /\ ~q_from_codes(<<TRANSPORTS_REGION>>, a)
                      /\ ~q_from_codes(ASSOCIATIONS, a)}, "charges"))

\* C9: whatever the amounts, every leaf and total of the three breakdowns,
\* every revenue value of the builder and every link value is at least zero.
C9_NothingNegative ==
  HasCall =>
    /\ \A k \in CantonKeys \cup {KEY_TOTAL} : Frame.canton[k] >= 0
    /\ \A k \in IntercosKeys \cup {KEY_TOTAL} : Frame.inter[k] >= 0
    /\ \A k \in CommuneKeys \cup {KEY_TOTAL} : Frame.commune[k] >= 0
    /\ \A i \in 1..Len(Frame.left_vals) : Frame.left_vals[i] >= 0
    /\ \A i \in 1..Len(Frame.links) : Frame.links[i].value >= 0

C9_Witness ==
  /\ HasCall
  /\ \E a \in Frame.qs : a.charges < 0 /\ LeavesOf(a) # {}
  /\ \E a \in Frame.qs : a.revenues < 0 /\ BucketsOf(a) # {}
  /\ Len(Frame.links) > 0

\* C10: for each hub the value of the link household -> hub is at least the
\* sum of the values of the links hub -> leaf minus 0.5.
C10_HubInflowCoversOutflow ==
  HasCall =>
    \A hub \in {NODE_CANTON, NODE_INTERCOS, NODE_COMMUNE} :
      LinkValueSum(Frame, LinkIndexes(Frame, NODE_HOUSEHOLD, hub))
        >= LinkValueSum(Frame, LinksOutOf(Frame, hub)) - MIN_VAL

----------------------------------------------------------------------------
(* accounting/models.py: the group hierarchy and the explorer's rows.      *)
(* A foreign key is the referenced object, or None when it is NULL.        *)

MG_4 == [code |-> 4, label |-> "Finances"]
MG_5 == [code |-> 5, label |-> "Instruction"]

SG_41 == [code |-> 41, label |-> "Impots", metagroup |-> Some(MG_4)]
SG_42 == [code |-> 42, label |-> "Service financier", metagroup |-> Some(MG_4)]
SG_51 == [code |-> 51, label |-> "Ecoles", metagroup |-> Some(MG_5)]
\* a super-group whose meta-group was deleted (on_delete=SET_NULL)
SG_60 == [code |-> 60, label |-> "Police", metagroup |-> None]

AG_ADA ==
  [id |-> 1, code |-> <<"A","D","A">>, label |-> "Administration",
   supergroup |-> Some(SG_41)]
AG_PCO ==
  [id |-> 2, code |-> <<"P","C","O">>, label |-> "Comptabilite",
   supergroup |-> Some(SG_41)]
AG_FIN ==
  [id |-> 3, code |-> <<"F","I","N">>, label |-> "Finances",
   supergroup |-> Some(SG_42)]
AG_ECO ==
  [id |-> 4, code |-> <<"E","C","O">>, label |-> "Ecoles",
   supergroup |-> Some(SG_51)]
AG_POL ==
  [id |-> 5, code |-> <<"P","O","L">>, label |-> "Police",
   supergroup |-> Some(SG_60)]
\* an account group whose super-group was deleted
AG_DIV ==
  [id |-> 6, code |-> <<"D","I","V">>, label |-> "Divers",
   supergroup |-> None]

\* carol is responsible for no group
Users == {"alice", "bob", "carol"}

\* the rows of GroupResponsibility
GroupResponsibilities ==
  { [group_id |-> 1, year |-> 2024, responsible |-> Some("alice")],
    [group_id |-> 4, year |-> 2024, responsible |-> Some("bob")],
    [group_id |-> 5, year |-> 2024, responsible |-> None] }

\* a row of the Account table as the explorer reads it
ExplorerRow(year, function, nature, sub_account, group, is_budget, charges, revenues, visible_in_report) ==
  [year |-> year, function |-> function, nature |-> nature,
   sub_account |-> sub_account, group |-> group, is_budget |-> is_budget,
   charges |-> charges, revenues |-> revenues,
   visible_in_report |-> visible_in_report]

ExplorerRows ==
  { ExplorerRow(2024, 170, 401, None, Some(AG_ADA), FALSE, 0, 100000, TRUE),
    ExplorerRow(2024, 170, 401, None, Some(AG_ADA), TRUE, 0, 90000, TRUE),
    ExplorerRow(2024, 170, 401, Some(1), Some(AG_ADA), FALSE, 1250, 0, TRUE),
    ExplorerRow(2024, 170, 401, Some(0), Some(AG_ADA), FALSE, 700, 0, TRUE),
    ExplorerRow(2024, 110, 301, None, Some(AG_PCO), FALSE, 20000, 0, TRUE),
    ExplorerRow(2024, 110, 301, None, Some(AG_PCO), FALSE, 20000, 0, FALSE),
    ExplorerRow(2024, 210, 318, None, Some(AG_FIN), TRUE, 4000, 150, TRUE),
    ExplorerRow(2024, 510, 352, None, Some(AG_ECO), FALSE, 30000, 0, TRUE),
    ExplorerRow(2024, 510, 352, Some(2), Some(AG_ECO), TRUE, 31000, 0, TRUE),
    ExplorerRow(2024, 600, 351, None, Some(AG_POL), FALSE, 20000, 0, TRUE),
    ExplorerRow(2024, 900, 480, None, Some(AG_DIV), FALSE, 0, 500, TRUE),
    ExplorerRow(2024, 900, 481, None, None, TRUE, 0, 650, TRUE),
    ExplorerRow(2023, 170, 401, None, Some(AG_ADA), TRUE, 0, 80000, TRUE),
    ExplorerRow(2023, 170, 401, None, Some(AG_ADA), TRUE, 0, 80000, FALSE),
    ExplorerRow(2023, 170, 401, None, None, TRUE, 0, 80000, TRUE),
    ExplorerRow(2022, 170, 401, None, Some(AG_ADA), FALSE, 0, 75000, TRUE) }

----------------------------------------------------------------------------
(* accounting/views/mixins.py: the queries and the reconciliation.         *)
(* A call ends with the rows it returns or with the exception it raises.   *)

Raised(exception) == [ok |-> FALSE, error |-> exception]

Returned(rows) == [ok |-> TRUE, rows |-> rows]

AccountKey(a) == <<a.function, a.nature, a.sub_account>>

HasAttr(a, name) == name \in DOMAIN a

SetAttrs(a, attrs) == attrs @@ a

\* annotate(comment_count=Count("comments")): the tables hold no comment
comment_count(a) == 0

_get_group_ids(user, year, only_responsible) ==
  IF ~only_responsible THEN {}
  ELSE {r.group_id : r \in {x \in GroupResponsibilities :
                              x.year = year /\ x.responsible = Some(user)}}

InGroups(a, group_ids) == group_ids # {} => a.group[1].id \in group_ids

_get_accounts_queryset(table, year, is_budget, group_ids) ==
  {a \in table : /\ a.year = year /\ a.is_budget = is_budget
                 /\ a.group # None /\ a.visible_in_report
                 /\ InGroups(a, group_ids)}

_get_actual_accounts(table, year, group_ids) ==
  {a \in table : /\ a.year = year /\ ~a.is_budget
                 /\ a.group # None /\ a.visible_in_report
                 /\ InGroups(a, group_ids)}

\* a fallback that leaves charges and revenues of the budget row in place
_get_budget_fallback_keeps_amounts(table, year, group_ids) ==
  LET qs == {b \in table : /\ b.year = year /\ b.is_budget
                           /\ b.group # None /\ InGroups(b, group_ids)}
  IN  {SetAttrs(b, [budget_charges |-> b.charges,
                    budget_revenues |-> b.revenues,
                    budget_id |-> Some(UniqueKey(b)),
                    budget_comment_count |-> comment_count(b)]) : b \in qs}

_get_budget_fallback(table, year, group_ids) ==
  LET qs == {b \in table : /\ b.year = year /\ b.is_budget
                           /\ b.group # None /\ InGroups(b, group_ids)}
  IN  {SetAttrs(b, [budget_charges |-> b.charges,
                    budget_revenues |-> b.revenues,
                    budget_id |-> Some(UniqueKey(b)),
                    budget_comment_count |-> comment_count(b),
                    charges |-> 0, revenues |-> 0]) : b \in qs}

\* an attachment that matches on function and nature alone
_attach_budget_data_ignores_sub_account(table, year, actual_accounts) ==
  LET budget_qs ==
        {b \in table :
           /\ b.year = year /\ b.is_budget
           /\ b.function \in {a.function : a \in actual_accounts}
           /\ b.nature \in {a.nature : a \in actual_accounts}}
      attach(a) ==
        LET found == {b \in budget_qs : /\ b.function = a.function
                                        /\ b.nature = a.nature}
        IN  IF found = {} THEN a
            ELSE LET b == CHOOSE x \in found : TRUE
                 IN  SetAttrs(a, [budget_charges |-> b.charges,
                                  budget_revenues |-> b.revenues,
                                  budget_id |-> Some(UniqueKey(b)),
                                  budget_comment_count |-> comment_count(b)])
  IN  {attach(a) : a \in actual_accounts}

\* the budget rows _attach_budget_data reads, and what it sets on one
\* actual account: the values of the budget row of its key, when there is one
_attach_budget_data(table, year, actual_accounts) ==
  LET budget_qs ==
        {b \in table :
           /\ b.year = year /\ b.is_budget
           /\ b.function \in {a.function : a \in actual_accounts}
           /\ b.nature \in {a.nature : a \in actual_accounts}}
      attach(a) ==
        LET found == {b \in budget_qs : AccountKey(b) = AccountKey(a)}
        IN  IF found = {} THEN a
            ELSE LET b == CHOOSE x \in found : TRUE
                 IN  SetAttrs(a, [budget_charges |-> b.charges,
                                  budget_revenues |-> b.revenues,
                                  budget_id |-> Some(UniqueKey(b)),
                                  budget_comment_count |-> comment_count(b)])
  IN  {attach(a) : a \in actual_accounts}

\* defaults that are never filled in
_ensure_budget_defaults_skipped(accounts_) == accounts_

_ensure_budget_defaults(accounts_) ==
  LET ensure(a, name, value) ==
        IF HasAttr(a, name) THEN a ELSE (name :> value) @@ a
  IN  {ensure(ensure(ensure(ensure(a, "budget_charges", 0),
                            "budget_revenues", 0),
                     "budget_id", None),
              "budget_comment_count", 0) : a \in accounts_}

AccountExplorerMixin_get_accounts(table, user, year, only_responsible) ==
  LET group_ids == _get_group_ids(user, year, only_responsible)
      actual_accounts == _get_actual_accounts(table, year, group_ids)
  IN  IF actual_accounts = {}
        THEN Returned(_get_budget_fallback(table, year, group_ids))
      ELSE Returned(_ensure_budget_defaults(
                      _attach_budget_data(table, year, actual_accounts)))

\* quantize that drops the digits after the first decimal (ROUND_FLOOR)
RoundHalfEven_floors(num, den) ==
  (IF den < 0 THEN -num ELSE num) \div Abs(den)

\* Decimal.quantize(Decimal("0.1")) of num / den under the default context
\* (ROUND_HALF_EVEN), as a number of tenths. The quotient the code hands to
\* quantize is rounded to 28 significant digits first; for amounts of at most
\* 15 digits that rounding never moves a value onto or across a tie.
RoundHalfEven(num, den) ==
  LET n == IF den < 0 THEN -num ELSE num
      d == Abs(den)
      q == n \div d
      r == n - q * d
  IN  IF 2 * r < d THEN q
      ELSE IF 2 * r > d THEN q + 1
      ELSE IF q % 2 = 0 THEN q ELSE q + 1

\* _calc_pct: None, or the percentage as a number of tenths of a percent
_calc_pct(current, previous) ==
  IF previous = 0 THEN None
  ELSE Some(RoundHalfEven((current - previous) * 1000, previous))

\* the template filter percent_diff on two Decimals: "" for a zero budget,
\* else round(x, 1), which is quantize under ROUND_HALF_EVEN as well
percent_diff(actual, budget) ==
  IF budget = 0 THEN ""
  ELSE RoundHalfEven((actual - budget) * 1000, budget)

\* the attributes BudgetExplorerMixin.get_accounts sets on one current row
annotate_budget_row(acc, prev_budget, actuals) ==
  LET prev == {a \in prev_budget : AccountKey(a) = AccountKey(acc)}
      act == {a \in actuals : AccountKey(a) = AccountKey(acc)}
      prev_budget_charges ==
        IF prev # {} THEN (CHOOSE a \in prev : TRUE).charges ELSE 0
      prev_budget_revenues ==
        IF prev # {} THEN (CHOOSE a \in prev : TRUE).revenues ELSE 0
  IN  SetAttrs(acc,
        [prev_budget_charges |-> prev_budget_charges,
         prev_budget_revenues |-> prev_budget_revenues,
         actual_charges |->
           IF act # {} THEN (CHOOSE a \in act : TRUE).charges ELSE 0,
         actual_revenues |->
           IF act # {} THEN (CHOOSE a \in act : TRUE).revenues ELSE 0,
         charges_pct |-> _calc_pct(acc.charges, prev_budget_charges),
         revenues_pct |-> _calc_pct(acc.revenues, prev_budget_revenues),
         budget_charges |-> acc.charges,
         budget_revenues |-> acc.revenues,
         budget_id |-> Some(UniqueKey(acc)),
         budget_comment_count |-> comment_count(acc)])

BudgetExplorerMixin_get_accounts(table, user, year, only_responsible) ==
  LET group_ids == _get_group_ids(user, year, only_responsible)
      current_budget == _get_accounts_queryset(table, year, TRUE, group_ids)
      prev_budget == _get_accounts_queryset(table, year - 1, TRUE, {})
      actuals == _get_accounts_queryset(table, year - 2, FALSE, {})
  IN  Returned({annotate_budget_row(acc, prev_budget, actuals) :
                  acc \in current_budget})

----------------------------------------------------------------------------
(* accounting/views/mixins.py: the report tree.                            *)
(* An OrderedDict is its keys in order and the value of each key.          *)

OrderedDict(order, items) == [order |-> order, items |-> items]

EmptyOrderedDict == OrderedDict(<<>>, <<>>)

RECURSIVE SumAttr(_, _)
SumAttr(accs, attr) ==
  IF Len(accs) = 0 THEN 0 ELSE accs[1][attr] + SumAttr(Tail(accs), attr)

\* the code point order of the characters of the group codes
Alphabet ==
  <<"A","B","C","D","E","F","G","H","I","J","K","L","M",
    "N","O","P","Q","R","S","T","U","V","W","X","Y","Z">>

Ord(c) == CHOOSE i \in 1..Len(Alphabet) : Alphabet[i] = c

RECURSIVE StrLess(_, _)
\* s < t for two str
StrLess(s, t) ==
  IF Len(t) = 0 THEN FALSE
  ELSE IF Len(s) = 0 THEN TRUE
  ELSE IF s[1] = t[1] THEN StrLess(Tail(s), Tail(t))
  ELSE Ord(s[1]) < Ord(t[1])

RECURSIVE SortedInts(_)
\* sorted(keys) for integer codes
SortedInts(S) ==
  IF S = {} THEN <<>>
  ELSE LET m == CHOOSE x \in S : \A y \in S : x <= y
       IN  <<m>> \o SortedInts(S \ {m})

RECURSIVE SortedStrs(_)
\* sorted(keys) for str codes
SortedStrs(S) ==
  IF S = {} THEN <<>>
  ELSE LET m == CHOOSE x \in S : \A y \in S \ {x} : StrLess(x, y)
       IN  <<m>> \o SortedStrs(S \ {m})

\* a.sub_account or "": None and 0 give the str "", another value itself
SubIsStr(a) == a.sub_account = None \/ a.sub_account[1] = 0

\* the sort key (a.function, a.nature, a.sub_account or ""): x < y
KeyLess(x, y) ==
  \/ x.function < y.function
  \/ x.function = y.function /\ x.nature < y.nature
  \/ /\ x.function = y.function /\ x.nature = y.nature
     /\ ~SubIsStr(x) /\ ~SubIsStr(y)
     /\ x.sub_account[1] < y.sub_account[1]

\* sorted() has to order a str against an int: TypeError
SortRaises(accs) ==
  \E i, j \in 1..Len(accs) :
    /\ accs[i].function = accs[j].function
    /\ accs[i].nature = accs[j].nature
    /\ SubIsStr(accs[i]) /\ ~SubIsStr(accs[j])

RECURSIVE sorted_accounts(_)
\* sorted(accounts, key=...): stable
sorted_accounts(accs) ==
  IF Len(accs) <= 1 THEN accs
  ELSE LET x == accs[Len(accs)]
           rest == sorted_accounts(SubSeq(accs, 1, Len(accs) - 1))
           k == Cardinality({i \in 1..Len(rest) : ~KeyLess(x, rest[i])})
       IN  SubSeq(rest, 1, k) \o <<x>> \o SubSeq(rest, k + 1, Len(rest))

\* the groups above an account, None where the chain stops
group_of(a) == a.group
supergroup_of(a) == IF a.group # None THEN a.group[1].supergroup ELSE None
metagroup_of(a) ==
  IF supergroup_of(a) # None THEN supergroup_of(a)[1].metagroup ELSE None

\* not (group and supergroup and metagroup) is false
chain_complete(a) ==
  group_of(a) # None /\ supergroup_of(a) # None /\ metagroup_of(a) # None

mg_key(a) == metagroup_of(a)[1].code
sg_key(a) == supergroup_of(a)[1].code
ag_key(a) == group_of(a)[1].code

\* total name -> account attribute, AccountExplorerMixin
ActualTotals ==
  [total_charges |-> "charges", total_revenues |-> "revenues",
   budget_total_charges |-> "budget_charges",
   budget_total_revenues |-> "budget_revenues"]

\* total name -> account attribute, BudgetExplorerMixin
BudgetTotals ==
  [budget_total_charges |-> "budget_charges",
   budget_total_revenues |-> "budget_revenues",
   prev_budget_total_charges |-> "prev_budget_charges",
   prev_budget_total_revenues |-> "prev_budget_revenues",
   actual_total_charges |-> "actual_charges",
   actual_total_revenues |-> "actual_revenues"]

totals_of(accs, totals) == [t \in DOMAIN totals |-> SumAttr(accs, totals[t])]

\* responsibilities.get(group.id) for the year of accounts[0]
responsible_of(year, group) ==
  LET rs == {r \in GroupResponsibilities :
               r.year = year /\ r.group_id = group.id}
  IN  IF rs = {} THEN None ELSE (CHOOSE r \in rs : TRUE).responsible

\* sort_grouped_structure on the raw structure of the placed accounts: the
\* keys of each level sorted, the accounts of each group sorted by their key
sort_grouped_structure(placed, year, totals, mg_totals) ==
  LET under_mg(m) == SelectSeq(placed, LAMBDA a : mg_key(a) = m)
      under_sg(m, s) == SelectSeq(under_mg(m), LAMBDA a : sg_key(a) = s)
      under_ag(m, s, g) == SelectSeq(under_sg(m, s), LAMBDA a : ag_key(a) = g)
      ag_data(m, s, g) ==
        LET accs == under_ag(m, s, g)
        IN  [label |-> group_of(accs[1])[1].label,
             accounts |-> sorted_accounts(accs),
             responsible |-> responsible_of(year, group_of(accs[1])[1])]
              @@ totals_of(accs, totals)
      sg_data(m, s) ==
        LET accs == under_sg(m, s)
            codes == {ag_key(a) : a \in ToSet(accs)}
        IN  [label |-> supergroup_of(accs[1])[1].label,
             groups |-> OrderedDict(SortedStrs(codes),
                                    [g \in codes |-> ag_data(m, s, g)])]
              @@ totals_of(accs, totals)
      mg_data(m) ==
        LET accs == under_mg(m)
            codes == {sg_key(a) : a \in ToSet(accs)}
            node == [label |-> metagroup_of(accs[1])[1].label,
                     supergroups |-> OrderedDict(SortedInts(codes),
                                        [s \in codes |-> sg_data(m, s)])]
        IN  IF mg_totals THEN node @@ totals_of(accs, totals) ELSE node
      mg_codes == {mg_key(a) : a \in ToSet(placed)}
      conflict ==
        \E a \in ToSet(placed) :
          SortRaises(under_ag(mg_key(a), sg_key(a), ag_key(a)))
  IN  IF conflict THEN Raised("TypeError")
      ELSE [ok |-> TRUE,
            tree |-> OrderedDict(SortedInts(mg_codes),
                                 [m \in mg_codes |-> mg_data(m)])]

\* build_grouped_structure of both mixins: they differ in the totals they
\* keep and in whether the meta-group keeps totals at all
grouped_structure(accounts_, totals, mg_totals) ==
  IF Len(accounts_) = 0 THEN [ok |-> TRUE, tree |-> EmptyOrderedDict]
  ELSE LET placed == SelectSeq(accounts_, chain_complete)
       IN  IF \E a \in ToSet(placed), t \in DOMAIN totals :
                ~HasAttr(a, totals[t])
             THEN Raised("AttributeError")
           ELSE sort_grouped_structure(placed, accounts_[1].year,
                                       totals, mg_totals)

AccountExplorerMixin_build_grouped_structure(accounts_) ==
  grouped_structure(accounts_, ActualTotals, FALSE)

BudgetExplorerMixin_build_grouped_structure(accounts_) ==
  grouped_structure(accounts_, BudgetTotals, TRUE)

----------------------------------------------------------------------------
(* accounting/models.py: Account.full_code. *)

DigitChar(d) == CHOOSE c \in Digits : DigitVal(c) = d

RECURSIVE NatStr(_)
NatStr(n) ==
  IF n < 10 THEN <<DigitChar(n)>>
  ELSE NatStr(n \div 10) \o <<DigitChar(n % 10)>>

\* str(int)
Str(n) == IF n < 0 THEN <<"-">> \o NatStr(-n) ELSE NatStr(n)

\* the f-string of Account.full_code: a falsy sub_account (None, 0) is left out
full_code(a) ==
  Str(a.function) \o <<".">> \o Str(a.nature)
    \o (IF a.sub_account # None /\ a.sub_account[1] # 0
          THEN <<".">> \o Str(a.sub_account[1]) ELSE <<>>)

----------------------------------------------------------------------------
(* The explorer: the table, and the operations of the mixins applied to it. *)

MaxExplorerAccounts == 3

\* the year a report is asked for
ReportYears == {2024}

\* <<current, previous>> in cents
PctAmounts ==
  { <<100000, 90000>>, <<90000, 100000>>, <<5000, 0>>, <<0, 0>>,
    <<0, 4000>>, <<100250, 100000>>, <<100350, 100000>>, <<1000, 600>>,
    <<-2000, 4000>>, <<3000, -4000>>, <<99500, 100000>>, <<1, 3>> }

\* the orders in which a caller may hand over the rows of S
Orderings(S) ==
  {s \in [1..Cardinality(S) -> S] :
     \A i, j \in 1..Cardinality(S) : i # j => s[i] # s[j]}

\* the actual rows of a year as get_accounts is to hand them to the tree:
\* reconciled with the budget rows and completed with the defaults
ReconciledActuals(table, year) ==
  _ensure_budget_defaults(
    _attach_budget_data(table, year,
                        {a \in table : a.year = year /\ ~a.is_budget}))

\* the budget rows of a year annotated with the rows of the two years before
AnnotatedBudget(table, year) ==
  {annotate_budget_row(acc,
                       {a \in table : a.year = year - 1 /\ a.is_budget},
                       {a \in table : a.year = year - 2 /\ ~a.is_budget}) :
     acc \in {a \in table : a.year = year /\ a.is_budget}}

AccountExplorer_get_accounts(user, year, only_responsible) ==
  \E out \in {AccountExplorerMixin_get_accounts(accounts, user, year,
                                                only_responsible)} :
    /\ call' = Some([op |-> "AccountExplorerMixin.get_accounts",
                      args |-> [user |-> user, year |-> year,
                               only_responsible |-> only_responsible]])
    /\ response' = Some(out)
    /\ UNCHANGED <<accounts, import_vars, sankey, site_vars>>

BudgetExplorer_get_accounts(user, year, only_responsible) ==
  \E out \in {BudgetExplorerMixin_get_accounts(accounts, user, year,
                                               only_responsible)} :
    /\ call' = Some([op |-> "BudgetExplorerMixin.get_accounts",
                      args |-> [user |-> user, year |-> year,
                               only_responsible |-> only_responsible]])
    /\ response' = Some(out)
    /\ UNCHANGED <<accounts, import_vars, sankey, site_vars>>

AccountExplorer_build_grouped_structure(accounts_) ==
  \E out \in {AccountExplorerMixin_build_grouped_structure(accounts_)} :
    /\ call' = Some([op |-> "AccountExplorerMixin.build_grouped_structure",
                      args |-> [accounts |-> accounts_]])
    /\ response' = Some(out)
    /\ UNCHANGED <<accounts, import_vars, sankey, site_vars>>

BudgetExplorer_build_grouped_structure(accounts_) ==
  \E out \in {BudgetExplorerMixin_build_grouped_structure(accounts_)} :
    /\ call' = Some([op |-> "BudgetExplorerMixin.build_grouped_structure",
                      args |-> [accounts |-> accounts_]])
    /\ response' = Some(out)
    /\ UNCHANGED <<accounts, import_vars, sankey, site_vars>>

calc_pct(current, previous) ==
  /\ call' = Some([op |-> "_calc_pct",
                    args |-> [current |-> current, previous |-> previous]])
  /\ response' = Some([pct |-> _calc_pct(current, previous),
                        percent_diff |-> percent_diff(current, previous)])
  /\ UNCHANGED <<accounts, import_vars, sankey, site_vars>>

\* the code of a row, parsed back by parse_fn_code
Account_full_code(a) ==
  \E code \in {full_code(a)} :
    /\ call' = Some([op |-> "Account.full_code",
                      args |-> [account |-> a]])
    /\ response' = Some([code |-> code, parsed |-> parse_fn_code(code)])
    /\ UNCHANGED <<accounts, import_vars, sankey, site_vars>>

NextExplorer ==
  \/ \E row \in ExplorerRows : AddAccount(row, MaxExplorerAccounts)
  \/ \E user \in Users, year \in ReportYears, only \in BOOLEAN :
       AccountExplorer_get_accounts(user, year, only)
  \/ \E user \in Users, year \in ReportYears, only \in BOOLEAN :
       BudgetExplorer_get_accounts(user, year, only)
  \/ \E year \in ReportYears :
       \E accounts_ \in Orderings(ReconciledActuals(accounts, year)) :
         AccountExplorer_build_grouped_structure(accounts_)
  \/ \E year \in ReportYears :
       \E accounts_ \in Orderings(AnnotatedBudget(accounts, year)) :
         BudgetExplorer_build_grouped_structure(accounts_)
  \/ \E m \in PctAmounts : calc_pct(m[1], m[2])
  \/ \E a \in accounts : Account_full_code(a)

SpecExplorer == Init /\ [][NextExplorer]_vars

\* the last call and its outcome
CalledOp(op) == call # None /\ call[1].op = op

Args == call[1].args

Outcome == response[1]

----------------------------------------------------------------------------
(* Claims on the reconciliation (accounting/views/mixins.py). *)

\* the budget rows of the table with the year and the key of the row a
BudgetCounterparts(a) ==
  {b \in accounts :
     b.year = a.year /\ b.is_budget /\ AccountKey(b) = AccountKey(a)}

\* the rows of the table with the given year, budget flag and key
RowsLike(year, is_budget, key) ==
  {b \in accounts :
     b.year = year /\ b.is_budget = is_budget /\ AccountKey(b) = key}

YearHasActuals(year) == \E a \in accounts : a.year = year /\ ~a.is_budget

YearHasBudget(year) == \E a \in accounts : a.year = year /\ a.is_budget

\* the rows the last get_accounts call returned that are actual rows
ReturnedActuals == {r \in Outcome.rows : ~r.is_budget}

TakesFallback ==
  /\ CalledOp("AccountExplorerMixin.get_accounts")
  /\ _get_actual_accounts(
       accounts, Args.year,
       _get_group_ids(Args.user, Args.year, Args.only_responsible)) = {}

C14_FallbackOnlyWithoutActuals ==
  (CalledOp("AccountExplorerMixin.get_accounts") /\ YearHasActuals(Args.year))
    =>
    /\ Outcome.ok
    /\ \A r \in Outcome.rows : ~r.is_budget

\* C15: BudgetExplorerMixin.get_accounts for year Y returns budget rows of
\* year Y; prev_budget_* are the amounts of the year Y-1 budget row of the
\* same key, actual_* those of the year Y-2 actual row of the same key, and
\* each is zero when there is no such row.
C15_BudgetComparison ==
  (CalledOp("BudgetExplorerMixin.get_accounts") /\ YearHasBudget(Args.year))
    =>
    /\ Outcome.ok
    /\ \A r \in Outcome.rows :
         LET prev == RowsLike(Args.year - 1, TRUE, AccountKey(r))
             act == RowsLike(Args.year - 2, FALSE, AccountKey(r))
         IN  /\ r.is_budget /\ r.year = Args.year
             /\ \A b \in prev : /\ r.prev_budget_charges = b.charges
                                /\ r.prev_budget_revenues = b.revenues
             /\ prev = {} => /\ r.prev_budget_charges = 0
                             /\ r.prev_budget_revenues = 0
             /\ \A b \in act : /\ r.actual_charges = b.charges
                               /\ r.actual_revenues = b.revenues
             /\ act = {} => r.actual_charges = 0 /\ r.actual_revenues = 0

\* C16: _calc_pct is None when previous is zero; otherwise it is the tenth
\* nearest to (current - previous) / previous * 100, the same value the
\* template filter percent_diff gives; 1000.00 against 900.00 gives 11.1.
C16_PctDelta ==
  CalledOp("_calc_pct") =>
    LET c == Args.current
        p == Args.previous
        r == Outcome.pct
    IN  /\ p = 0 => r = None
        /\ p # 0 => /\ r # None
                    /\ 2 * Abs(r[1] * p - (c - p) * 1000) <= Abs(p)
                    /\ Outcome.percent_diff = r[1]
        /\ (c = 100000 /\ p = 90000) => r = Some(111)

C16_Witness ==
  /\ CalledOp("_calc_pct")
  /\ Args.previous # 0
  /\ ((Args.current - Args.previous) * 1000) % Abs(Args.previous) # 0
  /\ Outcome.pct # None

----------------------------------------------------------------------------
(* Claims on the report tree. *)

BuildOps ==
  {"AccountExplorerMixin.build_grouped_structure",
   "BudgetExplorerMixin.build_grouped_structure"}

CalledBuild == call # None /\ call[1].op \in BuildOps

\* the totals the called mixin keeps: total name -> account attribute
TotalsOfCall ==
  IF call[1].op = "AccountExplorerMixin.build_grouped_structure"
    THEN ActualTotals ELSE BudgetTotals

\* the nodes of a returned tree
MgNode(tree, m) == tree.items[m]
SgNode(tree, m, s) == MgNode(tree, m).supergroups.items[s]
AgNode(tree, m, s, g) == SgNode(tree, m, s).groups.items[g]

\* <<m, s>> for every super-group and <<m, s, g>> for every account group
SgPaths(tree) ==
  UNION {{<<m, s>> : s \in ToSet(MgNode(tree, m).supergroups.order)} :
           m \in ToSet(tree.order)}

AgPaths(tree) ==
  UNION {{<<p[1], p[2], g>> :
            g \in ToSet(SgNode(tree, p[1], p[2]).groups.order)} :
           p \in SgPaths(tree)}

\* the accounts listed somewhere in the tree
Listed(tree) ==
  UNION {ToSet(AgNode(tree, p[1], p[2], p[3]).accounts) : p \in AgPaths(tree)}

Incomplete(accounts_) == {a \in ToSet(accounts_) : ~chain_complete(a)}

\* the chain-complete accounts of the input below a meta-group, a
\* super-group, an account group
CompleteUnderMg(accounts_, m) ==
  SelectSeq(accounts_, LAMBDA a : chain_complete(a) /\ mg_key(a) = m)
CompleteUnderSg(accounts_, s) ==
  SelectSeq(accounts_, LAMBDA a : chain_complete(a) /\ sg_key(a) = s)
CompleteUnderAg(accounts_, g) ==
  SelectSeq(accounts_, LAMBDA a : chain_complete(a) /\ ag_key(a) = g)

\* C17: when the input holds an account whose group, super-group or
\* meta-group is missing, the tree is built without it: it is in no accounts
\* list and in no total, and every other account of the input is listed in
\* its group and summed in the totals of its group and super-group.
C17_IncompleteChainSkipped ==
  (CalledBuild /\ Incomplete(Args.accounts) # {}) =>
    /\ Outcome.ok
    /\ Listed(Outcome.tree) \cap Incomplete(Args.accounts) = {}
    /\ \A a \in ToSet(Args.accounts) \ Incomplete(Args.accounts) :
         /\ <<mg_key(a), sg_key(a), ag_key(a)>> \in AgPaths(Outcome.tree)
         /\ a \in ToSet(AgNode(Outcome.tree, mg_key(a), sg_key(a),
                               ag_key(a)).accounts)
    /\ \A p \in AgPaths(Outcome.tree), t \in DOMAIN TotalsOfCall :
         /\ AgNode(Outcome.tree, p[1], p[2], p[3])[t]
              = SumAttr(CompleteUnderAg(Args.accounts, p[3]), TotalsOfCall[t])
         /\ SgNode(Outcome.tree, p[1], p[2])[t]
              = SumAttr(CompleteUnderSg(Args.accounts, p[2]), TotalsOfCall[t])

RECURSIVE SumSgTotals(_, _, _, _)
\* the sum of the total t over the super-groups of the meta-group m
SumSgTotals(tree, m, order, t) ==
  IF Len(order) = 0 THEN 0
  ELSE SgNode(tree, m, order[1])[t] + SumSgTotals(tree, m, Tail(order), t)

RECURSIVE SumAgTotals(_, _, _, _, _)
\* the sum of the total t over the account groups of the super-group s
SumAgTotals(tree, m, s, order, t) ==
  IF Len(order) = 0 THEN 0
  ELSE AgNode(tree, m, s, order[1])[t]
         + SumAgTotals(tree, m, s, Tail(order), t)

\* C18: in every returned tree each meta-group, super-group and account
\* group carries every total; a meta-group total is the sum over its
\* super-groups, a super-group total the sum over its account groups, an
\* account-group total the sum of the amounts of its accounts.
C18_HierarchyAdditive ==
  (CalledBuild /\ Outcome.ok) =>
    \A t \in DOMAIN TotalsOfCall :
      /\ \A m \in ToSet(Outcome.tree.order) :
           /\ t \in DOMAIN MgNode(Outcome.tree, m)
           /\ MgNode(Outcome.tree, m)[t]
                = SumSgTotals(Outcome.tree, m,
                              MgNode(Outcome.tree, m).supergroups.order, t)
      /\ \A p \in SgPaths(Outcome.tree) :
           /\ t \in DOMAIN SgNode(Outcome.tree, p[1], p[2])
           /\ SgNode(Outcome.tree, p[1], p[2])[t]
                = SumAgTotals(Outcome.tree, p[1], p[2],
                              SgNode(Outcome.tree, p[1], p[2]).groups.order, t)
      /\ \A p \in AgPaths(Outcome.tree) :
           /\ t \in DOMAIN AgNode(Outcome.tree, p[1], p[2], p[3])
           /\ AgNode(Outcome.tree, p[1], p[2], p[3])[t]
                = SumAttr(AgNode(Outcome.tree, p[1], p[2], p[3]).accounts,
                          TotalsOfCall[t])

Ascending(order) == \A i, j \in 1..Len(order) : i < j => order[i] < order[j]

AscendingStrs(order) ==
  \A i, j \in 1..Len(order) : i < j => StrLess(order[i], order[j])

\* (function, nature, sub_account) of x is at most that of y, an absent
\* sub_account before any present one
AccountKeyAtMost(x, y) ==
  \/ x.function < y.function
  \/ x.function = y.function /\ x.nature < y.nature
  \/ /\ x.function = y.function /\ x.nature = y.nature
     /\ \/ x.sub_account = None
        \/ /\ y.sub_account # None
           /\ x.sub_account[1] <= y.sub_account[1]

\* C19: the tree is returned with its meta-groups, the super-groups of each
\* meta-group and the account groups of each super-group in ascending code
\* order, and the accounts of each group ordered by (function, nature,
\* sub_account), an absent sub_account first.
C19_SortedTree ==
  CalledBuild =>
    /\ Outcome.ok
    /\ Ascending(Outcome.tree.order)
    /\ \A m \in ToSet(Outcome.tree.order) :
         Ascending(MgNode(Outcome.tree, m).supergroups.order)
    /\ \A p \in SgPaths(Outcome.tree) :
         AscendingStrs(SgNode(Outcome.tree, p[1], p[2]).groups.order)
    /\ \A p \in AgPaths(Outcome.tree) :
         LET accs == AgNode(Outcome.tree, p[1], p[2], p[3]).accounts
         IN  \A i, j \in 1..Len(accs) :
               i < j => AccountKeyAtMost(accs[i], accs[j])

\* C20: parse_fn_code of the full_code of an account gives back its function,
\* its nature and its sub_account, absent for absent and the same integer
\* otherwise, 0 included.
C20_KeyRoundTrip ==
  CalledOp("Account.full_code") =>
    LET a == Args.account
        parsed == Outcome.parsed
    IN  /\ parsed.ok
        /\ parsed.function = a.function
        /\ parsed.nature = a.nature
        /\ IF a.sub_account = None THEN parsed.subaccount = None
           ELSE /\ parsed.subaccount # None
                /\ IntOk(parsed.subaccount[1])
                /\ IntValue(parsed.subaccount[1]) = a.sub_account[1]

----------------------------------------------------------------------------
(* bdi_import/importers.py: the account import.                            *)

MIN_PARTS == 2
MAX_PARTS == 3

ACCOUNT_NUMBER_COLUMN == "CPT_NUM_CPT"
ACCOUNT_LABEL_COLUMN == "CPT_LIB"
ACCOUNT_TOTAL_COLUMN == "Solde"

\* parse_account_code: the parts as strings, the sub-account "" when the code
\* has two parts; ok = FALSE stands for the ValueError.
parse_account_code(code) ==
  LET parts == Split(Strip(code), ".")
  IN  IF ~(MIN_PARTS <= Len(parts) /\ Len(parts) <= MAX_PARTS)
        THEN [ok |-> FALSE, function |-> <<>>, nature |-> <<>>,
              sub_account |-> <<>>]
      ELSE [ok |-> TRUE, function |-> parts[1], nature |-> parts[2],
            sub_account |-> IF Len(parts) = MAX_PARTS THEN parts[3] ELSE <<>>]

\* Decimal(str) for the texts a Solde cell holds here: an optional sign,
\* digits, and at most two digits after a point. Anything else (the empty
\* cell included) is the InvalidOperation of the conversion.
DecimalOk(s) ==
  \E parts \in {Split(Unsigned(s), ".")} :
    /\ Len(parts) <= 2
    /\ IsDigit(parts[1])
    /\ Len(parts) = 2 => IsDigit(parts[2]) /\ Len(parts[2]) <= 2

\* the value of Decimal(str) in cents
DecimalCents(s) ==
  LET parts == Split(Unsigned(s), ".")
      frac == IF Len(parts) = 1 THEN 0
              ELSE IF Len(parts[2]) = 1 THEN 10 * DigitsValue(parts[2])
              ELSE DigitsValue(parts[2])
      magnitude == 100 * DigitsValue(parts[1]) + frac
  IN  IF Len(s) > 0 /\ s[1] = "-" THEN -magnitude ELSE magnitude

\* the lookup value an integer column accepts: int(value), ValueError else
\* ("Field ... expected a number but got ''")
IntegerLookupOk(s) == IntOk(s)

\* an import that books every total as charges
amounts_of_total_as_charges(total) ==
  [charges |-> total, revenues |-> 0, expected_type |-> "charge"]

\* importers.py 108-116: the sign of the total decides the side
amounts_of_total(total) ==
  IF total < 0
    THEN [charges |-> 0, revenues |-> -total, expected_type |-> "revenue"]
  ELSE [charges |-> total, revenues |-> 0, expected_type |-> "charge"]

\* Account.objects.update_or_create(year, function, nature, sub_account,
\* is_budget, defaults): the row of that key with the defaults set
update_or_create(table, key, defaults) ==
  LET found == {a \in table : UniqueKey(a) = key}
      row == [year |-> key[1], function |-> key[2], nature |-> key[3],
              sub_account |-> key[4], is_budget |-> key[5],
              charges |-> defaults.charges, revenues |-> defaults.revenues,
              expected_type |-> defaults.expected_type,
              label |-> defaults.label]
  IN  (table \ found) \cup {row}

\* one row of the dataframe (importers.py 93-145): the table after it, and
\* whether the loop goes on ("next") or the import ends with an exception
import_row(table, row, year, is_budget, dry_run) ==
  LET raw_number == Strip(row[ACCOUNT_NUMBER_COLUMN])
      label == Strip(row[ACCOUNT_LABEL_COLUMN])
      parsed == parse_account_code(raw_number)
      cell == row[ACCOUNT_TOTAL_COLUMN]
      skip == [table |-> table, outcome |-> "next"]
  IN  IF Len(raw_number) = 0 \/ Len(label) = 0 THEN skip
      ELSE IF ~parsed.ok THEN skip
      ELSE IF ~IsDigit(parsed.function) THEN skip
      ELSE IF cell # None /\ ~DecimalOk(cell[1])
        THEN [table |-> table, outcome |-> "InvalidOperation"]
      ELSE IF dry_run THEN skip
      ELSE IF \/ ~IntegerLookupOk(parsed.nature)
              \/ ~IntegerLookupOk(parsed.sub_account)
        THEN [table |-> table, outcome |-> "ValueError"]
      ELSE LET total == IF cell = None THEN 0 ELSE DecimalCents(cell[1])
               key == <<year, IntValue(parsed.function),
                        IntValue(parsed.nature),
                        Some(IntValue(parsed.sub_account)), is_budget>>
           IN  [table |->
                  update_or_create(table, key,
                                   [label |-> label] @@ amounts_of_total(total)),
                outcome |-> "next"]

RECURSIVE import_rows(_, _, _, _, _)
\* the loop over the dataframe: it stops at the first exception and keeps
\* what the rows before it wrote
import_rows(table, account_rows, year, is_budget, dry_run) ==
  IF Len(account_rows) = 0 THEN [table |-> table, outcome |-> "returned"]
  ELSE LET step == import_row(table, Head(account_rows), year, is_budget,
                              dry_run)
       IN  IF step.outcome # "next" THEN step
           ELSE import_rows(step.table, Tail(account_rows), year, is_budget,
                            dry_run)

import_accounts_from_dataframe(table, account_rows, year, is_budget, dry_run) ==
  import_rows(table, account_rows, year, is_budget, dry_run)

----------------------------------------------------------------------------
(* bdi_import/tasks.py and bdi_import/models.py: the import task and its   *)
(* log.                                                                    *)

PENDING == "pending"
STARTED == "started"
SUCCESS == "success"
FAILED == "failed"

\* what the task writes after load_account_dataframe (tasks.py 22-33):
\* the status, and whether the task goes on, returns or re-raises
after_load(outcome) ==
  IF outcome = "dataframe" THEN [status |-> STARTED, then |-> "import"]
  ELSE IF outcome = "FileNotFoundError"
    THEN [status |-> FAILED, then |-> "return"]
  ELSE [status |-> FAILED, then |-> "raise"]

\* a task that reports success whatever the import did
after_import_always_success(outcome) ==
  IF outcome = "returned" THEN [status |-> SUCCESS, then |-> "return"]
  ELSE IF outcome = "ValueError" THEN [status |-> SUCCESS, then |-> "return"]
  ELSE [status |-> SUCCESS, then |-> "raise"]

\* what the task writes after import_accounts_from_dataframe (tasks.py 40-68)
after_import(outcome) ==
  IF outcome = "returned" THEN [status |-> SUCCESS, then |-> "return"]
  ELSE IF outcome = "ValueError" THEN [status |-> FAILED, then |-> "return"]
  ELSE [status |-> FAILED, then |-> "raise"]

----------------------------------------------------------------------------
(* The import: the dataframes, and the steps of the task.                  *)

MaxImportRows == 2

\* one row of the dataframe: the code, the label and the Solde cell (None
\* when the file has no such column)
ImportRow(code, label, total) == (ACCOUNT_NUMBER_COLUMN :> code) @@ (ACCOUNT_LABEL_COLUMN :> label) @@ (ACCOUNT_TOTAL_COLUMN :> total)

ImportRows ==
  { ImportRow(<<"1","7","0",".","4","0","1",".","1">>, <<"I","m","p","o","t","s">>, Some(<<"-","1","0","0","0",".","0","0">>)),
    ImportRow(<<"6","0","0",".","3","5","1",".","2">>, <<"P","o","l","i","c","e">>, Some(<<"2","0","0",".","5","0">>)),
    ImportRow(<<"1","7","0",".","4","0","1",".","1">>, <<"I","m","p","o","t","s">>, Some(<<"3","0","0">>)),
    ImportRow(<<"1","7","0",".","4","0","1">>, <<"I","m","p","o","t","s">>, Some(<<"-","5">>)),
    ImportRow(<<"1","7","a",".","4","0","1",".","1">>, <<"D","i","v","e","r","s">>, Some(<<"1">>)),
    ImportRow(<<"1","7","0",".","4","0","1",".","1",".","5">>, <<"D","i","v","e","r","s">>, Some(<<"1">>)),
    ImportRow(<<"7","2","0",".","3","5","1",".","1">>, <<"A","i","d","e">>, Some(<<>>)),
    ImportRow(<<"7","2","0",".","3","5","1",".","1">>, <<"A","i","d","e">>, None),
    ImportRow(<<" ","5","1","0",".","3","5","2",".","3"," ">>, <<"E","c","o">>, Some(<<"-","0",".","5">>)) }

Dataframes ==
  UNION {[1..n -> ImportRows] : n \in 0..MaxImportRows}

\* the texts handed to the two code parsers
CodeStrings ==
  { <<"1","7","0",".","4","0","1">>,
    <<"1","7","0",".","4","0","1",".","1">>,
    <<"1","7","0">>,
    <<>>,
    <<"1","7","0",".","4","0","1",".","1",".","5">>,
    <<"1","7","a",".","4","0","1">>,
    <<"1","7","0",".","4","x","1",".","2">>,
    <<" ","1","7","0",".","4","0","1"," ">>,
    <<"-","1","7","0",".","4","0","1">>,
    <<"1","7","0",".",".","1">>,
    <<".">> }

InitImport ==
  /\ accounts = {}
  /\ call = None
  /\ response = None
  /\ Idle

\* both parsers on one text, before an upload is handed to the task
parse_code(code) ==
  /\ task = None
  /\ call' = Some([op |-> "parse", args |-> [code |-> code]])
  /\ response' = Some([parse_fn_code |-> parse_fn_code(code),
                        parse_account_code |-> parse_account_code(code)])
  /\ UNCHANGED <<accounts, import_vars, sankey, site_vars>>

\* bdi_import/views.py 137-158: the log of an upload is handed to the task;
\* dry_run is a field of the log (models.py 27), False from the upload form
\* and editable in the admin
ImportView_post(year, is_budget, dry_run) ==
  /\ log = None
  /\ log' = Some([status |-> PENDING, year |-> year,
                   is_budget |-> is_budget, dry_run |-> dry_run])
  /\ task' = Some([pc |-> "queued", loaded |-> FALSE, imported |-> FALSE,
                    account_rows |-> <<>>])
  /\ call' = None
  /\ response' = None
  /\ UNCHANGED <<accounts, sankey, site_vars>>

\* tasks.py 16-20
Task_start ==
  /\ task # None /\ task[1].pc = "queued"
  /\ log' = Some([log[1] EXCEPT !.status = STARTED])
  /\ task' = Some([task[1] EXCEPT !.pc = "load"])
  /\ call' = None
  /\ response' = None
  /\ UNCHANGED <<accounts, sankey, site_vars>>

\* tasks.py 22-33: the file is loaded, is missing, or cannot be read
Task_load(outcome, account_rows) ==
  /\ task # None /\ task[1].pc = "load"
  /\ \E after \in {after_load(outcome)} :
       /\ log' = Some([log[1] EXCEPT !.status = after.status])
       /\ task' = Some([pc |-> after.then,
                         loaded |-> outcome = "dataframe",
                         imported |-> FALSE,
                         account_rows |-> account_rows])
  /\ call' = None
  /\ response' = None
  /\ UNCHANGED <<accounts, sankey, site_vars>>

\* tasks.py 34-68. The call passes column_map and derived_from_total, which
\* the signature at importers.py 51-62 does not declare (TypeError before the
\* body runs); the body is run as well, for an importer that accepts them.
Task_import(accepts_keywords) ==
  /\ task # None /\ task[1].pc = "import"
  /\ \E out \in {IF accepts_keywords
                   THEN import_accounts_from_dataframe(
                          accounts, task[1].account_rows, log[1].year,
                          log[1].is_budget, log[1].dry_run)
                   ELSE [table |-> accounts, outcome |-> "TypeError"]} :
       \E after \in {after_import(out.outcome)} :
         /\ accounts' = out.table
         /\ log' = Some([log[1] EXCEPT !.status = after.status])
         /\ task' = Some([task[1] EXCEPT !.pc = after.then,
                                         !.imported = out.outcome = "returned"])
  /\ call' = None
  /\ response' = None
  /\ UNCHANGED <<sankey, site_vars>>

NextImport ==
  \/ \E code \in CodeStrings : parse_code(code)
  \/ \E y \in Years, b, d \in BOOLEAN : ImportView_post(y, b, d)
  \/ Task_start
  \/ \E o \in {"dataframe", "FileNotFoundError", "Exception"} :
       \E df \in Dataframes :
         Task_load(o, IF o = "dataframe" THEN df ELSE <<>>)
  \/ \E k \in BOOLEAN : Task_import(k)

SpecImport == InitImport /\ [][NextImport]_vars

\* the worker runs a task it has taken to its end
SpecImportFair ==
  /\ SpecImport
  /\ WF_vars(Task_start)
  /\ WF_vars(\E o \in {"dataframe", "FileNotFoundError", "Exception"} :
               \E df \in Dataframes :
                 Task_load(o, IF o = "dataframe" THEN df ELSE <<>>))
  /\ WF_vars(\E k \in BOOLEAN : Task_import(k))

----------------------------------------------------------------------------
(* Claims on the code parsers and on the import (bdi_import).              *)

\* C21: parse_fn_code and parse_account_code both fail for a text with fewer
\* than 2 or more than 3 dot-separated parts or with a function or nature
\* part that is not an integer; for 'F.N' and 'F.N.S' with integers F and N
\* both return the key, the sub-account absent for 'F.N'.
C21_ParsersRejectMalformed ==
  CalledOp("parse") =>
    LET parts == Split(Args.code, ".")
        wellformed == /\ Len(parts) \in {2, 3}
                      /\ IntOk(parts[1]) /\ IntOk(parts[2])
        fn == Outcome.parse_fn_code
        ac == Outcome.parse_account_code
    IN  /\ ~wellformed => ~fn.ok /\ ~ac.ok
        /\ wellformed =>
             /\ fn.ok /\ ac.ok
             /\ fn.function = IntValue(parts[1])
             /\ fn.nature = IntValue(parts[2])
             /\ IntOk(ac.function) /\ IntOk(ac.nature)
             /\ IntValue(ac.function) = IntValue(parts[1])
             /\ IntValue(ac.nature) = IntValue(parts[2])
             /\ Len(parts) = 2 => fn.subaccount = None /\ ac.sub_account = <<>>
             /\ Len(parts) = 3 => /\ fn.subaccount = Some(parts[3])
                                  /\ ac.sub_account = Strip(parts[3])

\* the code and the total, in cents, of the rows of ImportRows that can be
\* written
SourceTotals ==
  { <<<<"1","7","0",".","4","0","1",".","1">>, -100000>>, <<<<"1","7","0",".","4","0","1",".","1">>, 30000>>, <<<<"6","0","0",".","3","5","1",".","2">>, 20050>>, <<<<"7","2","0",".","3","5","1",".","1">>, 0>>, <<<<"5","1","0",".","3","5","2",".","3">>, -50>> }

TaskEnded == task # None /\ task[1].pc \in {"return", "raise"}

StatusIs(statuses) == log # None /\ log[1].status \in statuses

----------------------------------------------------------------------------
(* Claims on the empty collection and on the nodes of the graph. *)

\* the keys of the nodes the builder pushes whatever the totals
PlaceholderKeys ==
  RevenueKeys \cup {NODE_HOUSEHOLD, NODE_CANTON, NODE_INTERCOS, NODE_COMMUNE}
    \cup CantonKeys \cup IntercosKeys \cup CommuneKeys

\* C22: for an empty account collection the builder returns, without
\* raising, a graph with no link and no result node, holding only the fixed
\* category and hub nodes, and build_grouped_structure of both mixins returns
\* an empty tree without raising.
C22_EmptyCollection ==
  (HasCall /\ Frame.qs = {}) =>
    /\ response = Some([status |-> 200,
                        data |-> [nodes |-> Frame.nodes, links |-> Frame.links,
                                  link_colors |-> Frame.link_colors,
                                  node_colors |-> Frame.node_colors]])
    /\ Frame.links = <<>> /\ Frame.link_colors = <<>>
    /\ ~HasNode(Frame, NODE_RESULT)
    /\ DOMAIN Frame.idx = PlaceholderKeys
    /\ Len(Frame.nodes) = Cardinality(PlaceholderKeys)
    /\ \A i \in 1..Len(Frame.nodes) : Frame.nodes[i].name.chf = None
    /\ \A accounts_ \in Orderings(Frame.qs) :
         /\ AccountExplorerMixin_build_grouped_structure(accounts_)
              = [ok |-> TRUE, tree |-> EmptyOrderedDict]
         /\ BudgetExplorerMixin_build_grouped_structure(accounts_)
              = [ok |-> TRUE, tree |-> EmptyOrderedDict]

\* the graph of a year was asked for while the table holds budget rows only
C22_Witness ==
  /\ HasCall /\ Frame.qs = {}
  /\ accounts # {}
  /\ Len(Frame.nodes) = 21

\* one link from src_key to dst_key, carrying the value
OneLink(f, src_key, dst_key, value) ==
  \E links \in {LinkIndexes(f, src_key, dst_key)} :
    /\ Cardinality(links) = 1
    /\ \A i \in links : f.links[i].value = value

\* the node of key is in the graph exactly when total is not zero, and then
\* with one link from src_key to dst_key of that value
NodeOfTotal(f, key, total, src_key, dst_key) ==
  /\ HasNode(f, key) <=> total # 0
  /\ HasNode(f, key) => OneLink(f, src_key, dst_key, total)

\* C25: the returned graph has a node for a revenue category, a charge hub or
\* a charge leaf exactly when that category's total is non-zero, and for each
\* such node one link (category -> household, household -> hub, hub -> leaf)
\* whose value is that total.
C25_NodePerNonZeroTotal ==
  HasCall =>
    /\ \A k \in RevenueKeys :
         NodeOfTotal(Frame, k, Frame.rev[k], k, NODE_HOUSEHOLD)
    /\ NodeOfTotal(Frame, NODE_CANTON, Frame.canton[KEY_TOTAL],
                   NODE_HOUSEHOLD, NODE_CANTON)
    /\ NodeOfTotal(Frame, NODE_INTERCOS, Frame.inter[KEY_TOTAL],
                   NODE_HOUSEHOLD, NODE_INTERCOS)
    /\ NodeOfTotal(Frame, NODE_COMMUNE, Frame.commune[KEY_TOTAL],
                   NODE_HOUSEHOLD, NODE_COMMUNE)
    /\ \A k \in CantonKeys :
         NodeOfTotal(Frame, k, Frame.canton[k], NODE_CANTON, k)
    /\ \A k \in IntercosKeys :
         NodeOfTotal(Frame, k, Frame.inter[k], NODE_INTERCOS, k)
    /\ \A k \in CommuneKeys :
         NodeOfTotal(Frame, k, Frame.commune[k], NODE_COMMUNE, k)

\* the hubs of the charge axis, each with the keys of its leaves
Hubs ==
  { <<NODE_CANTON, CantonKeys>>, <<NODE_INTERCOS, IntercosKeys>>,
    <<NODE_COMMUNE, CommuneKeys>> }

\* the values of the links from the hub to its leaves, added up
LeafLinkSum(f, hub) ==
  LinkValueSum(f, UNION {LinkIndexes(f, hub[1], k) : k \in hub[2]})

\* C26: when no account of the collection has negative charges, for each hub
\* (canton, intercommunalities, commune) the value of the household -> hub
\* link is the sum of the values of the links from the hub to its leaves.
C26_HubIsSumOfLeaves ==
  (HasCall /\ \A a \in Frame.qs : a.charges >= 0) =>
    \A hub \in Hubs :
      /\ Cardinality(LinkIndexes(Frame, NODE_HOUSEHOLD, hub[1])) <= 1
      /\ LinkValueSum(Frame, LinkIndexes(Frame, NODE_HOUSEHOLD, hub[1]))
           = LeafLinkSum(Frame, hub)
      /\ LinksOutOf(Frame, hub[1])
           = UNION {LinkIndexes(Frame, hub[1], k) : k \in hub[2]}

\* the commune hub of a collection without negative charges has two leaf
\* links, one of them to the aids, of 120.00 each
C26_Witness ==
  /\ HasCall /\ Frame.qs # {}
  /\ \A a \in Frame.qs : a.charges >= 0
  /\ Cardinality(LinksOutOf(Frame, NODE_COMMUNE)) = 2
  /\ LinkIndexes(Frame, NODE_COMMUNE, KEY_AIDS) # {}
  /\ LeafLinkSum(Frame, <<NODE_COMMUNE, CommuneKeys>>) = 24000

----------------------------------------------------------------------------
(* Claims on the rows a user is shown. *)

\* the ids of the groups the user is the responsible of in the year
ResponsibleGroupIds(user, year) ==
  {g.group_id : g \in {x \in GroupResponsibilities :
                         x.year = year /\ x.responsible = Some(user)}}

\* C24: when get_accounts of either mixin is called with
\* only_responsible=True, every returned account belongs to a group the
\* requesting user is the responsible of in that year; this holds for a user
\* who is responsible for no group in that year as well.
C24_OnlyResponsibleGroups ==
  ((CalledOp("AccountExplorerMixin.get_accounts")
      \/ CalledOp("BudgetExplorerMixin.get_accounts"))
     /\ Args.only_responsible)
    =>
    /\ Outcome.ok
    /\ \A r \in Outcome.rows :
         /\ r.group # None
         /\ r.group[1].id \in ResponsibleGroupIds(Args.user, Args.year)

\* the actual rows of the year the report shows to the caller of the last
\* get_accounts
ShownActuals ==
  _get_actual_accounts(
    accounts, Args.year,
    _get_group_ids(Args.user, Args.year, Args.only_responsible))

\* a returned budget row with no actual row of its year and key
BudgetOnly(r) ==
  r.is_budget /\ RowsLike(r.year, FALSE, AccountKey(r)) = {}

\* the budget amounts of the actual rows of a list, added up
ActualBudgetSum(accs, attr) ==
  SumAttr(SelectSeq(accs, LAMBDA a : ~BudgetOnly(a)), attr)

\* C28: when the year has at least one actual row, get_accounts returns one
\* entry per actual row of the report and no entry for a budget row that has
\* no actual row of its (function, nature, sub_account); in the tree built
\* from the result no budget total includes the amounts of such a budget row.
C28_NoBudgetOnlyRows ==
  (CalledOp("AccountExplorerMixin.get_accounts") /\ YearHasActuals(Args.year))
    =>
    /\ Outcome.ok
    /\ {UniqueKey(r) : r \in Outcome.rows} = {UniqueKey(a) : a \in ShownActuals}
    /\ Cardinality(Outcome.rows) = Cardinality(ShownActuals)
    /\ \A r \in Outcome.rows : ~BudgetOnly(r)
    /\ \A accounts_ \in Orderings(Outcome.rows) :
         \E built \in {AccountExplorerMixin_build_grouped_structure(accounts_)} :
           built.ok =>
             \A p \in AgPaths(built.tree) :
               \E node \in {AgNode(built.tree, p[1], p[2], p[3])} :
                 /\ node.budget_total_charges
                      = ActualBudgetSum(node.accounts, "budget_charges")
                 /\ node.budget_total_revenues
                      = ActualBudgetSum(node.accounts, "budget_revenues")

----------------------------------------------------------------------------
(* core/models.py: SiteConfiguration and its cache entry.                  *)
(* site is the row of pk 1 and cache the entry "site_configuration", both   *)
(* as the commune name they hold; the cache is the one all workers share.   *)
(* inflight maps each running call to its position and its local config.   *)

MaxSiteCalls == 2

\* the default of the field commune_name, and the names an editor saves
DefaultCommuneName == ""

CommuneNames == {"Morges", "Nyon"}

Running(p, op, pc) ==
  p \in DOMAIN inflight /\ inflight[p].op = op /\ inflight[p].pc = pc

Finish(p) == [q \in DOMAIN inflight \ {p} |-> inflight[q]]

\* a request or an editor enters get_cached or save
SiteConfiguration_call(p, op, config) ==
  /\ p \notin DOMAIN inflight
  /\ inflight' = (p :> [op |-> op, pc |-> "start", config |-> config])
                   @@ inflight
  /\ UNCHANGED <<accounts, call, response, import_vars, sankey, site, cache>>

\* save, line 34: super().save() writes the row
save_write(p) ==
  /\ Running(p, "save", "start")
  /\ site' = inflight[p].config
  /\ inflight' = [inflight EXCEPT ![p].pc = "purge"]
  /\ UNCHANGED <<accounts, call, response, import_vars, sankey, cache>>

\* save, line 35: cache.delete
save_purge(p) ==
  /\ Running(p, "save", "purge")
  /\ cache' = None
  /\ inflight' = Finish(p)
  /\ call' = Some([op |-> "SiteConfiguration.save",
                    args |-> [config |-> inflight[p].config]])
  /\ response' = None
  /\ UNCHANGED <<accounts, import_vars, sankey, site>>

\* get_cached, lines 39-40 and 43: cache.get; a hit is returned
get_cached_read(p) ==
  /\ Running(p, "get_cached", "start")
  /\ IF cache # None
       THEN /\ inflight' = Finish(p)
            /\ call' = Some([op |-> "SiteConfiguration.get_cached",
                              args |-> [hit |-> TRUE]])
            /\ response' = cache
       ELSE /\ inflight' = [inflight EXCEPT ![p].pc = "get_or_create"]
            /\ UNCHANGED <<call, response>>
  /\ UNCHANGED <<accounts, import_vars, sankey, site, cache>>

\* get_cached, line 41: get_or_create(pk=1)
get_cached_get_or_create(p) ==
  /\ Running(p, "get_cached", "get_or_create")
  /\ site' = IF site = None THEN Some(DefaultCommuneName) ELSE site
  /\ inflight' = [inflight EXCEPT ![p].pc = "set", ![p].config = site']
  /\ UNCHANGED <<accounts, call, response, import_vars, sankey, cache>>

\* get_cached, lines 42-43: cache.set without timeout, then return
get_cached_set(p) ==
  /\ Running(p, "get_cached", "set")
  /\ cache' = inflight[p].config
  /\ inflight' = Finish(p)
  /\ call' = Some([op |-> "SiteConfiguration.get_cached",
                    args |-> [hit |-> FALSE]])
  /\ response' = inflight[p].config
  /\ UNCHANGED <<accounts, import_vars, sankey, site>>

NextSite ==
  \/ \E p \in 1..MaxSiteCalls :
       SiteConfiguration_call(p, "get_cached", None)
  \/ \E p \in 1..MaxSiteCalls, name \in CommuneNames :
       SiteConfiguration_call(p, "save", Some(name))
  \/ \E p \in 1..MaxSiteCalls : save_write(p)
  \/ \E p \in 1..MaxSiteCalls : save_purge(p)
  \/ \E p \in 1..MaxSiteCalls : get_cached_read(p)
  \/ \E p \in 1..MaxSiteCalls : get_cached_get_or_create(p)
  \/ \E p \in 1..MaxSiteCalls : get_cached_set(p)

SpecSite == Init /\ [][NextSite]_vars

\* what a get_cached that runs alone returns: the cache entry, or the row
get_cached_alone == IF cache # None THEN cache ELSE site

\* C30: under any interleaving of get_cached and save calls, once every call
\* has finished, a later get_cached returns the configuration the last save
\* stored: no older configuration stays in the cache.
C30_CacheFollowsLastSave ==
  (inflight = <<>> /\ site # None) => get_cached_alone = site

----------------------------------------------------------------------------
(* finance/views.py and finance/builders.py beside a running import.       *)
(* SankeyDataView.get hands the builder a QuerySet that is not evaluated;   *)
(* each breakdown of the builder (lines 448-451) runs its own aggregate     *)
(* queries on the table as it is at that moment. The importer writes one    *)
(* row per iteration, outside any transaction (importers.py 137-145).       *)
(* sankey holds a running request: its year, the breakdowns read so far     *)
(* and, to state the claim, the collections the year went through since    *)
(* the request began. A breakdown is read in one step, which is coarser     *)
(* than the code, where each leaf is a query of its own.                    *)

MaxConcurrentWrites == 2

ConcurrentImportRows ==
  { ImportRow(<<"1","7","0",".","4","0","1",".","1">>, <<"I","m","p","o","t","s">>, Some(<<"-","1","0","0","0",".","0","0">>)),
    ImportRow(<<"1","7","0",".","4","0","1",".","1">>, <<"I","m","p","o","t","s">>, Some(<<"-","9","0","0">>)),
    ImportRow(<<"6","0","0",".","3","5","1",".","2">>, <<"P","o","l","i","c","e">>, Some(<<"2","0","0",".","5","0">>)),
    ImportRow(<<"1","7","0",".","3","0","1",".","1">>, <<"S","a","l","a","i","r","e","s">>, Some(<<"3","0","0">>)) }

\* Account.objects.filter(year=year, is_budget=False), evaluated now
ActualAccounts(year) == {a \in accounts : a.year = year /\ ~a.is_budget}

\* views.py 27-35: the year is read and the builder is entered
SankeyDataView_get_begin(year_str) ==
  /\ IsDigit(year_str)
  /\ sankey = None
  /\ \E year \in {IntValue(year_str)} :
       sankey' = Some([year |-> year, reads |-> <<>>,
                       states |-> {ActualAccounts(year)}])
  /\ call' = None
  /\ response' = None
  /\ UNCHANGED <<accounts, import_vars, site_vars>>

\* the request has read n breakdowns
SankeyAt(n) == sankey # None /\ Len(sankey[1].reads) = n

\* builders.py 448
builder_compute_bucket_sums ==
  /\ SankeyAt(0)
  /\ \E rev \in {_compute_bucket_sums(ActualAccounts(sankey[1].year))} :
       sankey' = Some([sankey[1] EXCEPT !.reads = Append(@, rev)])
  /\ UNCHANGED <<accounts, call, response, import_vars, site_vars>>

\* builders.py 449
builder_compute_canton_breakdown ==
  /\ SankeyAt(1)
  /\ \E canton \in {compute_canton_breakdown(ActualAccounts(sankey[1].year))} :
       sankey' = Some([sankey[1] EXCEPT !.reads = Append(@, canton)])
  /\ UNCHANGED <<accounts, call, response, import_vars, site_vars>>

\* builders.py 450
builder_compute_intercos ==
  /\ SankeyAt(2)
  /\ \E inter \in {compute_intercos(ActualAccounts(sankey[1].year))} :
       sankey' = Some([sankey[1] EXCEPT !.reads = Append(@, inter)])
  /\ UNCHANGED <<accounts, call, response, import_vars, site_vars>>

\* builders.py 451-588 and views.py 35: the last breakdown, the graph and
\* the response
builder_compute_commune_breakdown ==
  /\ SankeyAt(3)
  /\ \E qs \in {ActualAccounts(sankey[1].year)} :
       \E f \in {frame_of(qs, sankey[1].reads[1], sankey[1].reads[2],
                          sankey[1].reads[3], compute_commune_breakdown(qs))} :
         /\ call' = Some([states |-> sankey[1].states] @@ f)
         /\ response' = Some([status |-> 200,
                              data |-> [nodes |-> f.nodes, links |-> f.links,
                                        link_colors |-> f.link_colors,
                                        node_colors |-> f.node_colors]])
  /\ sankey' = None
  /\ UNCHANGED <<accounts, import_vars, site_vars>>

\* importers.py 93-145: one iteration of the importer's loop writes its row
importer_write(row, year) ==
  \E step \in {import_row(accounts, row, year, FALSE, FALSE)} :
    /\ step.outcome = "next"
    /\ step.table # accounts
    /\ accounts' = step.table
    /\ IF sankey = None
         THEN /\ call' = None
              /\ response' = None
              /\ UNCHANGED sankey
         ELSE /\ Cardinality(sankey[1].states) <= MaxConcurrentWrites
              /\ sankey' = Some([sankey[1] EXCEPT !.states = @ \cup
                     {{a \in step.table : a.year = sankey[1].year /\ ~a.is_budget}}])
              /\ UNCHANGED <<call, response>>
    /\ UNCHANGED <<import_vars, site_vars>>

NextConcurrent ==
  \/ \E y \in YearParams : SankeyDataView_get_begin(y)
  \/ builder_compute_bucket_sums
  \/ builder_compute_canton_breakdown
  \/ builder_compute_intercos
  \/ builder_compute_commune_breakdown
  \/ \E row \in ConcurrentImportRows, year \in Years : importer_write(row, year)

SpecConcurrent == Init /\ [][NextConcurrent]_vars

\* C23: when the builder runs while an import inserts or updates accounts of
\* the year, every total of the returned graph is computed from one state of
\* the collection: the graph is the graph of one of the collections the year
\* went through during the request.
C23_GraphOfOneState ==
  HasCall =>
    \E qs \in Frame.states :
      response[1].data = build_income_budget_canton_intercos_commune(qs)

====
